---- MODULE Spec2Model ----
(***************************************************************************)
(* A model of ytrag: the caption cleaner (ytrag/cleaner.py), the volume    *)
(* batcher (ytrag/consolidator.py) and the helpers of ytrag/utils.py.      *)
(*                                                                         *)
(* A Python str is a sequence of one-character strings.  A Python float is *)
(* an IEEE-754 binary64 number; every float the cleaner computes is a      *)
(* number of milliseconds over 1000 plus a rounding error, and is kept as  *)
(* the record [isNone, ms, err] standing for  ms/1000 + err * ErrUnit,     *)
(* ErrUnit = 2^-62 / 125, which is exact for the timestamps used here      *)
(* (below 3 hours).                                                        *)
(***************************************************************************)
EXTENDS Integers, Sequences, FiniteSets, TLC

(***************************************************************************)
(* Bounds of the model.                                                    *)
(***************************************************************************)
\* number of lines of a caption file given to clean_vtt_content
MaxLines == 5

\* number of markdown files a channel folder of _biblioteca can hold
MaxDocs == 3

\* number of markdown files the second channel folder can hold
MaxDocsB == 1

\* largest transcripts_per_volume given to consolidate_all
MaxPerVolume == 3

\* number of caption files a tree can hold
MaxFiles == 3

\* number of file names given to select_best_subtitle_file
MaxCandidates == 3

\* number of pieces a text line given to the marker filter is made of
MaxTokens == 3

\* number of characters of a text given to capitalize_sentences
MaxText == 4

\* largest backoff_count a limiter is constructed with
MaxBackoff == 2

\* number of calls of on_rate_limit in one run of the limiter
MaxRateLimits == 5

\* number of runs of consolidate_all on one base directory
MaxRuns == 2

\* number of calls made on one Downloader
MaxCalls == 2

(***************************************************************************)
(* Strings.                                                                *)
(***************************************************************************)
Range(s) == {s[k] : k \in 1..Len(s)}

Digits == <<"0", "1", "2", "3", "4", "5", "6", "7", "8", "9">>

UpperAlpha == <<"A", "B", "C", "D", "E", "F", "G", "H", "I", "J", "K", "L", "M",
                "N", "O", "P", "Q", "R", "S", "T", "U", "V", "W", "X", "Y", "Z">>

LowerAlpha == <<"a", "b", "c", "d", "e", "f", "g", "h", "i", "j", "k", "l", "m",
                "n", "o", "p", "q", "r", "s", "t", "u", "v", "w", "x", "y", "z">>

DigitSet == Range(Digits)

UpperSet == Range(UpperAlpha)

LowerSet == Range(LowerAlpha)

\* str.isdigit of one character
IsDigit(c) == c \in DigitSet

DigitVal(c) == (CHOOSE k \in 1..10 : Digits[k] = c) - 1

\* a letter of the ASCII alphabet
IsAlpha(c) == c \in UpperSet \/ c \in LowerSet

\* str.isalpha of one character; of the characters outside ASCII the model
\* has the letter "ß" and the symbols "ⓐ" and "Ⓐ", which are no letters
StrIsAlpha(c) == IsAlpha(c) \/ c = "ß"

\* the regular expression class \w
IsWordChar(c) == StrIsAlpha(c) \/ IsDigit(c) \/ c = "_"

\* the regular expression class \s, and what str.strip removes
IsSpace(c) == c \in {" ", "\t", "\n"}

LowerChar(c) ==
    IF c \in UpperSet
    THEN LowerAlpha[CHOOSE k \in 1..26 : UpperAlpha[k] = c]
    ELSE c

UpperChar(c) ==
    IF c \in LowerSet
    THEN UpperAlpha[CHOOSE k \in 1..26 : LowerAlpha[k] = c]
    ELSE c

\* str.upper of one character, which is a string: "ß" has the upper case "SS",
\* and "ⓐ", which is no letter, has the upper case "Ⓐ"
StrUpper(c) ==
    IF c = "ß" THEN <<"S", "S">>
    ELSE IF c = "ⓐ" THEN <<"Ⓐ">>
    ELSE <<UpperChar(c)>>

\* str.lower
Lower(s) == [k \in 1..Len(s) |-> LowerChar(s[k])]

\* str.upper
Upper(s) == [k \in 1..Len(s) |-> UpperChar(s[k])]

RECURSIVE LStrip(_)
LStrip(s) == IF s # <<>> /\ IsSpace(Head(s)) THEN LStrip(Tail(s)) ELSE s

RECURSIVE RStrip(_)
RStrip(s) ==
    IF s # <<>> /\ IsSpace(s[Len(s)]) THEN RStrip(SubSeq(s, 1, Len(s) - 1)) ELSE s

\* str.strip
Strip(s) == RStrip(LStrip(s))

\* whether t occurs in s at index k (1-based)
MatchAt(s, k, t) ==
    /\ k >= 1
    /\ k + Len(t) - 1 <= Len(s)
    /\ \A j \in 1..Len(t) : s[k + j - 1] = t[j]

\* str.startswith
StartsWith(s, t) == MatchAt(s, 1, t)

\* t in s
Contains(s, t) == \E k \in 1..(Len(s) + 1) : MatchAt(s, k, t)

\* str.replace: every non-overlapping occurrence of old, leftmost first
RECURSIVE ReplaceFrom(_, _, _, _)
ReplaceFrom(s, k, old, new) ==
    IF k > Len(s) THEN <<>>
    ELSE IF MatchAt(s, k, old) THEN new \o ReplaceFrom(s, k + Len(old), old, new)
    ELSE <<s[k]>> \o ReplaceFrom(s, k + 1, old, new)

Replace(s, old, new) == ReplaceFrom(s, 1, old, new)

\* sep.join(parts)
RECURSIVE Join(_, _)
Join(parts, sep) ==
    IF parts = <<>> THEN <<>>
    ELSE IF Len(parts) = 1 THEN parts[1]
    ELSE parts[1] \o sep \o Join(Tail(parts), sep)

\* str.split(sep) for a one-character separator
RECURSIVE Split(_, _)
Split(s, sep) ==
    IF \A k \in 1..Len(s) : s[k] # sep THEN <<s>>
    ELSE LET p == CHOOSE k \in 1..Len(s) :
                      s[k] = sep /\ \A j \in 1..(k - 1) : s[j] # sep
         IN  <<SubSeq(s, 1, p - 1)>> \o Split(SubSeq(s, p + 1, Len(s)), sep)

RECURSIVE Pow2(_)
Pow2(n) == IF n <= 0 THEN 1 ELSE 2 * Pow2(n - 1)

(***************************************************************************)
(* Python floats.  [isNone |-> FALSE, ms |-> m, err |-> r] is the binary64 *)
(* number m/1000 + r * ErrUnit with ErrUnit = 2^-62 / 125; None is the     *)
(* record with isNone = TRUE.  The arithmetic below is IEEE-754 round to   *)
(* nearest, ties to even, computed exactly on the pair.                    *)
(***************************************************************************)
None == [isNone |-> TRUE, ms |-> 0, err |-> 0, special |-> "no"]

Float(m, r) == [isNone |-> FALSE, ms |-> m, err |-> r, special |-> "no"]

\* the floats that are no number of milliseconds: "nan", "inf", "-inf"
Special(kind) == [isNone |-> FALSE, ms |-> 0, err |-> 0, special |-> kind]

\* -x
Negated(x) ==
    IF x.special = "inf" THEN Special("-inf")
    ELSE IF x.special = "-inf" THEN Special("inf")
    ELSE [x EXCEPT !.ms = 0 - x.ms, !.err = 0 - x.err]

RECURSIVE ExpUp(_, _)
ExpUp(n, e) == IF 1000 * Pow2(e + 1) <= n THEN ExpUp(n, e + 1) ELSE e

RECURSIVE ExpDown(_, _)
ExpDown(n, k) == IF n * Pow2(k) < 1000 THEN ExpDown(n, k + 1) ELSE 0 - k

\* the binary exponent of n/1000 for n > 0: 2^e <= n/1000 < 2^(e+1)
Binade(n) == IF n >= 1000 THEN ExpUp(n, 0) ELSE ExpDown(n, 1)

RECURSIVE Pow2Mod(_, _)
Pow2Mod(p, m) == IF p <= 0 THEN 1 % m ELSE (2 * Pow2Mod(p - 1, m)) % m

\* the inverse of 125 modulo 2^k, k >= 1
RECURSIVE Inv125(_)
Inv125(k) ==
    IF k <= 1 THEN 1
    ELSE LET x == Inv125(k - 1)
         IN  IF (125 * x) % Pow2(k) = 1 THEN x ELSE x + Pow2(k - 1)

\* n/1000 has the 53-bit significand q with 125 * q = n * 2^(49 - e) + SigErr(n)
SigErr(n) ==
    LET r == ((n % 125) * Pow2Mod(49 - Binade(n), 125)) % 125
    IN  IF r <= 62 THEN 0 - r ELSE 125 - r

\* float("SS.mmm"): the binary64 number nearest to n/1000, n >= 0
FloatOfMillis(n) ==
    IF n = 0 THEN Float(0, 0)
    ELSE Float(n, SigErr(n) * Pow2(10 + Binade(n)))

\* the low j+1 bits of the significand of float(n/1000)
SigLowBits(n, j) ==
    LET d == SigErr(n)
        M == Pow2(j + 1)
        a == ((IF d < 0 THEN 0 - d ELSE d) * Inv125(j + 1)) % M
    IN  IF d < 0 THEN (M - a) % M ELSE a

\* whole + x, or whole - x when minus, for an int whole > 0 and a float x > 0
\* with whole > x: the exact result rounded to the significand of its own binade
RoundedSum(whole, x, minus) ==
    LET total == IF minus THEN whole * 1000 - x.ms ELSE whole * 1000 + x.ms
        xerr == IF minus THEN 0 - x.err ELSE x.err
        e == Binade(x.ms)
        j == Binade(total) - e
        M == Pow2(j + 1)
        q == IF minus THEN (M - SigLowBits(x.ms, j)) % M ELSE SigLowBits(x.ms, j)
        low == q % Pow2(j)
        half == Pow2(j - 1)
        adj == IF j <= 0 \/ low = 0 THEN 0
               ELSE IF low < half THEN 0 - low
               ELSE IF low > half THEN Pow2(j) - low
               ELSE IF q < Pow2(j) THEN 0 - low
               ELSE Pow2(j) - low
    IN  Float(total, xerr + adj * 125 * Pow2(e + 10))

\* x, or -x when negative
Signed(negative, x) == IF negative THEN Negated(x) ELSE x

\* int + float for a float that is a number: the sum of the magnitudes when the
\* signs agree, their difference when they do not, with the sign of the int
AddIntFloat(whole, x) ==
    IF whole = 0 \/ x.ms = 0 THEN Float(whole * 1000 + x.ms, x.err)
    ELSE IF (whole < 0) # (x.ms < 0)
            /\ (IF whole < 0 THEN 0 - whole ELSE whole) * 1000
                   <= (IF x.ms < 0 THEN 0 - x.ms ELSE x.ms)
    THEN Float(whole * 1000 + x.ms, x.err)
    ELSE Signed(whole < 0,
                RoundedSum(IF whole < 0 THEN 0 - whole ELSE whole,
                           Signed(x.ms < 0, x),
                           (whole < 0) # (x.ms < 0)))

\* half the distance from the float t/1000 down to the next float, in ErrUnit;
\* t/1000 is a multiple of 1/8, so it is a float with an even significand
HalfSpacingBelow(t) ==
    LET e == Binade(t)
        isPow2 == IF e >= 0 THEN t = 1000 * Pow2(e) ELSE t * Pow2(0 - e) = 1000
    IN  IF isPow2 THEN 125 * Pow2(e + 8) ELSE 125 * Pow2(e + 9)

\* a - b >= t/1000 in floats: the exact difference, rounded, against the threshold
FloatSubGE(a, b, t) ==
    LET dm == a.ms - b.ms - t
        de == a.err - b.err
    IN  \/ dm > 0
        \/ dm = 0 /\ (de >= 0 \/ 0 - de <= HalfSpacingBelow(t))

(***************************************************************************)
(* parse_vtt_timestamp                                                     *)
(***************************************************************************)
IsDigits(s) == s # <<>> /\ \A k \in 1..Len(s) : IsDigit(s[k])

RECURSIVE IntOf(_)
IntOf(s) == IF s = <<>> THEN 0 ELSE 10 * IntOf(SubSeq(s, 1, Len(s) - 1)) + DigitVal(s[Len(s)])

RECURSIVE LStripZeros(_)
LStripZeros(s) == IF s # <<>> /\ Head(s) = "0" THEN LStripZeros(Tail(s)) ELSE s

\* a literal without the sign int() and float() accept in front of it
Unsigned(s) == IF s # <<>> /\ s[1] \in {"+", "-"} THEN Tail(s) ELSE s

IsNegative(s) == s # <<>> /\ s[1] = "-"

\* the literals int() converts: white space around a sign and decimal digits,
\* at most 4300 of them; it raises ValueError on the rest
IsIntLiteral(s) == IsDigits(Unsigned(Strip(s))) /\ Len(Unsigned(Strip(s))) <= 4300

\* an int beyond the largest float, which int + float cannot convert; the
\* fields of the inputs have at most 9 digits, or more than 308
IsBeyondFloat(s) == Len(LStripZeros(Unsigned(Strip(s)))) > 308

\* int(s) of a literal of at most 9 digits
IntValue(s) ==
    IF IsNegative(Strip(s)) THEN 0 - IntOf(Unsigned(Strip(s))) ELSE IntOf(Unsigned(Strip(s)))

\* the decimal literals of seconds the inputs hold: digits, or digits "." 1-3 digits
IsSecondsLiteral(s) ==
    LET parts == Split(s, ".")
    IN  \/ IsDigits(s)
        \/ /\ Len(parts) = 2
           /\ IsDigits(parts[1])
           /\ IsDigits(parts[2])
           /\ Len(parts[2]) <= 3

MillisOf(s) ==
    LET parts == Split(s, ".")
    IN  IF Len(parts) = 1 THEN 1000 * IntOf(s)
        ELSE 1000 * IntOf(parts[1]) + IntOf(parts[2]) *
             (IF Len(parts[2]) = 1 THEN 100 ELSE IF Len(parts[2]) = 2 THEN 10 ELSE 1)

\* the words float() converts to a float that is no number
IsNanLiteral(s) == Lower(s) = <<"n", "a", "n">>

IsInfLiteral(s) == Lower(s) \in {<<"i", "n", "f">>, <<"i", "n", "f", "i", "n", "i", "t", "y">>}

\* the literals float() converts: white space around a sign and a decimal
\* literal, nan or inf; it raises ValueError on the rest
IsFloatLiteral(s) ==
    LET u == Unsigned(Strip(s))
    IN  IsSecondsLiteral(u) \/ IsNanLiteral(u) \/ IsInfLiteral(u)

\* float(s) of a literal
FloatValue(s) ==
    LET u == Unsigned(Strip(s))
        x == IF IsNanLiteral(u) THEN Special("nan")
             ELSE IF IsInfLiteral(u) THEN Special("inf")
             ELSE FloatOfMillis(MillisOf(u))
    IN  IF IsNegative(Strip(s)) /\ ~IsNanLiteral(u) THEN Negated(x) ELSE x

\* the minutes added as seconds, which the value law must tell apart
WholeSecondsMinutesAsSeconds(hours, minutes) == hours * 3600 + minutes

\* hours * 3600 + minutes * 60, in ints
WholeSeconds(hours, minutes) == hours * 3600 + minutes * 60

\* hours * 3600 + minutes * 60 + seconds: what the try block ends with.
\* "ValueError" is caught and makes the function return None; "OverflowError"
\* is not among the exceptions caught and leaves the function.
TryBlock(timestamp) ==
    LET parts == Split(timestamp, ":")
    IN  IF Len(parts) # 3 THEN [outcome |-> "return", value |-> None]
        ELSE IF ~IsIntLiteral(parts[1]) \/ ~IsIntLiteral(parts[2])
                \/ ~IsFloatLiteral(parts[3])
        THEN [outcome |-> "ValueError", value |-> None]
        ELSE IF IsBeyondFloat(parts[1]) \/ IsBeyondFloat(parts[2])
        THEN [outcome |-> "OverflowError", value |-> None]
        ELSE LET seconds == FloatValue(parts[3])
                 whole == WholeSeconds(IntValue(parts[1]), IntValue(parts[2]))
             IN  [outcome |-> "return",
                  value |-> IF seconds.special # "no" THEN seconds
                            ELSE AddIntFloat(whole, seconds)]

\* what a call returns; a call that raises returns nothing, and this is None
parse_vtt_timestamp(timestamp) ==
    IF timestamp = <<>> THEN None ELSE TryBlock(timestamp).value

(***************************************************************************)
(* The constants and regular expressions of cleaner.py                     *)
(***************************************************************************)
\* '[music]', '[applause]', '[laughter]', '[cheering]', '[silence]',
\* '[inaudible]', '[crosstalk]', '[noise]', '[background noise]', '[foreign]',
\* '[speaking foreign language]', '[no audio]', '[pause]', '[sighs]',
\* '[coughs]', '[clears throat]'
USELESS_MARKERS ==
    {<<"[", "m", "u", "s", "i", "c", "]">>,
     <<"[", "a", "p", "p", "l", "a", "u", "s", "e", "]">>,
     <<"[", "l", "a", "u", "g", "h", "t", "e", "r", "]">>,
     <<"[", "c", "h", "e", "e", "r", "i", "n", "g", "]">>,
     <<"[", "s", "i", "l", "e", "n", "c", "e", "]">>,
     <<"[", "i", "n", "a", "u", "d", "i", "b", "l", "e", "]">>,
     <<"[", "c", "r", "o", "s", "s", "t", "a", "l", "k", "]">>,
     <<"[", "n", "o", "i", "s", "e", "]">>,
     <<"[", "b", "a", "c", "k", "g", "r", "o", "u", "n", "d", " ", "n", "o", "i", "s", "e", "]">>,
     <<"[", "f", "o", "r", "e", "i", "g", "n", "]">>,
     <<"[", "s", "p", "e", "a", "k", "i", "n", "g", " ", "f", "o", "r", "e", "i", "g", "n", " ", "l", "a", "n", "g", "u", "a", "g", "e", "]">>,
     <<"[", "n", "o", " ", "a", "u", "d", "i", "o", "]">>,
     <<"[", "p", "a", "u", "s", "e", "]">>,
     <<"[", "s", "i", "g", "h", "s", "]">>,
     <<"[", "c", "o", "u", "g", "h", "s", "]">>,
     <<"[", "c", "l", "e", "a", "r", "s", " ", "t", "h", "r", "o", "a", "t", "]">>}

\* the text \d{2}:\d{2}:\d{2}\.\d{3} at index k of s
IsTimestampAt(s, k) ==
    /\ k >= 1
    /\ k + 11 <= Len(s)
    /\ \A j \in {0, 1, 3, 4, 6, 7, 9, 10, 11} : IsDigit(s[k + j])
    /\ s[k + 2] = ":"
    /\ s[k + 5] = ":"
    /\ s[k + 8] = "."

\* the index of the first character at or after k that \s does not match
RECURSIVE SkipSpaces(_, _)
SkipSpaces(s, k) == IF k <= Len(s) /\ IsSpace(s[k]) THEN SkipSpaces(s, k + 1) ELSE k

\* RE_TIMESTAMP_LINE matched at index k of s
TimestampLineAt(s, k) ==
    /\ IsTimestampAt(s, k)
    /\ MatchAt(s, SkipSpaces(s, k + 12), <<"-", "-", ">">>)
    /\ IsTimestampAt(s, SkipSpaces(s, SkipSpaces(s, k + 12) + 3))

\* the least index from k on where RE_TIMESTAMP_LINE matches, 0 when none
RECURSIVE SearchTimestampLine(_, _)
SearchTimestampLine(s, k) ==
    IF k > Len(s) THEN 0
    ELSE IF TimestampLineAt(s, k) THEN k
    ELSE SearchTimestampLine(s, k + 1)

\* RE_TIMESTAMP_LINE.search(s): the leftmost match and its two groups
RE_TIMESTAMP_LINE(s) ==
    LET k == SearchTimestampLine(s, 1)
        g == SkipSpaces(s, SkipSpaces(s, k + 12) + 3)
    IN  IF k > 0
        THEN [matched |-> TRUE,
              group1 |-> SubSeq(s, k, k + 11),
              group2 |-> SubSeq(s, g, g + 11)]
        ELSE [matched |-> FALSE, group1 |-> <<>>, group2 |-> <<>>]

\* how many characters from index k on satisfy \w (kind "w") or \d (kind "d")
RECURSIVE RunLen(_, _, _)
RunLen(s, k, kind) ==
    IF k <= Len(s) /\ (IF kind = "w" THEN IsWordChar(s[k]) ELSE IsDigit(s[k]))
    THEN 1 + RunLen(s, k + 1, kind)
    ELSE 0

\* the length of the match of RE_POSITION_ATTRS at index k of s, 0 when none
RE_POSITION_ATTRS(s, k) ==
    IF MatchAt(s, k, <<"a", "l", "i", "g", "n", ":">>) /\ RunLen(s, k + 6, "w") > 0
    THEN 6 + RunLen(s, k + 6, "w")
    ELSE IF /\ MatchAt(s, k, <<"p", "o", "s", "i", "t", "i", "o", "n", ":">>)
            /\ RunLen(s, k + 9, "d") > 0
            /\ MatchAt(s, k + 9 + RunLen(s, k + 9, "d"), <<"%">>)
    THEN 10 + RunLen(s, k + 9, "d")
    ELSE 0

\* the length of the match of RE_INLINE_TIMESTAMP at index k of s, 0 when none
RE_INLINE_TIMESTAMP(s, k) ==
    IF MatchAt(s, k, <<"<">>) /\ IsTimestampAt(s, k + 1) /\ MatchAt(s, k + 13, <<">">>)
    THEN 14
    ELSE 0

\* the length of the match of RE_HTML_TAGS (<[^>]+>) at index k of s, 0 when none
RE_HTML_TAGS(s, k) ==
    IF /\ MatchAt(s, k, <<"<">>)
       /\ k + 1 <= Len(s)
       /\ s[k + 1] # ">"
       /\ \E p \in (k + 2)..Len(s) : s[p] = ">"
    THEN (CHOOSE p \in (k + 2)..Len(s) :
              s[p] = ">" /\ \A j \in (k + 2)..(p - 1) : s[j] # ">") - k + 1
    ELSE 0

\* the length of the match of RE_MULTIPLE_SPACES (\s+) at index k of s, 0 when none
RE_MULTIPLE_SPACES(s, k) == SkipSpaces(s, k) - k

RegexLen(re, s, k) ==
    CASE re = "RE_POSITION_ATTRS" -> RE_POSITION_ATTRS(s, k)
      [] re = "RE_INLINE_TIMESTAMP" -> RE_INLINE_TIMESTAMP(s, k)
      [] re = "RE_HTML_TAGS" -> RE_HTML_TAGS(s, k)
      [] re = "RE_MULTIPLE_SPACES" -> RE_MULTIPLE_SPACES(s, k)

\* re.sub(repl, s): every non-overlapping match from index k on, leftmost first
RECURSIVE SubFrom(_, _, _, _)
SubFrom(re, repl, s, k) ==
    IF k > Len(s) THEN <<>>
    ELSE IF RegexLen(re, s, k) > 0
    THEN repl \o SubFrom(re, repl, s, k + RegexLen(re, s, k))
    ELSE <<s[k]>> \o SubFrom(re, repl, s, k + 1)

Sub(re, repl, s) == SubFrom(re, repl, s, 1)

(***************************************************************************)
(* capitalize_sentences                                                    *)
(***************************************************************************)
RECURSIVE CapitalizeFrom(_, _, _)
CapitalizeFrom(text, k, capitalize_next) ==
    IF k > Len(text) THEN <<>>
    ELSE LET char == text[k]
             up == capitalize_next /\ StrIsAlpha(char)
             next == IF char \in {".", "?", "!"} /\ k - 1 < Len(text) - 1
                     THEN TRUE
                     ELSE IF up THEN FALSE ELSE capitalize_next
         IN  (IF up THEN StrUpper(char) ELSE <<char>>)
                 \o CapitalizeFrom(text, k + 1, next)

capitalize_sentences(text) ==
    IF text = <<>> THEN text
    ELSE CapitalizeFrom(StrUpper(text[1]) \o Tail(text), 1, FALSE)

(***************************************************************************)
(* clean_vtt_content: one caption line                                     *)
(***************************************************************************)
\* the metadata lines the loop skips
IsMetadataLine(line) ==
    \/ line = <<>>
    \/ line = <<"W", "E", "B", "V", "T", "T">>
    \/ StartsWith(line, <<"K", "i", "n", "d", ":">>)
    \/ StartsWith(line, <<"L", "a", "n", "g", "u", "a", "g", "e", ":">>)
    \/ IsDigits(line)

\* the text of a line with markup, entities and surrounding space removed
SanitizeLine(line) ==
    LET a == Strip(Sub("RE_POSITION_ATTRS", <<>>, line))
        b == Sub("RE_INLINE_TIMESTAMP", <<>>, a)
        c == Sub("RE_HTML_TAGS", <<>>, b)
        d == Replace(c, <<"&", "n", "b", "s", "p", ";">>, <<" ">>)
        e == Replace(d, <<"&", "a", "m", "p", ";">>, <<"&">>)
        f == Replace(e, <<"&", "#", "3", "9", ";">>, <<"'">>)
        g == Replace(f, <<"&", "q", "u", "o", "t", ";">>, <<"\"">>)
        h == Replace(g, <<" ", " ">>, <<" ">>)
    IN  Strip(h)

\* whether the characters of m occur in t in this order, not necessarily adjacent
RECURSIVE IsSubsequence(_, _)
IsSubsequence(m, t) ==
    IF m = <<>> THEN TRUE
    ELSE IF t = <<>> THEN FALSE
    ELSE IF Head(m) = Head(t) THEN IsSubsequence(Tail(m), Tail(t))
    ELSE IsSubsequence(m, Tail(t))

\* The loop over the set USELESS_MARKERS, whose iteration order Python does not
\* fix: every value the loop can leave in text_without_marker.  Each pass only
\* deletes characters, so a marker that is not a subsequence of the text never
\* occurs in it and its place in the order changes nothing.
RECURSIVE MarkerLoop(_, _)
MarkerLoop(text, markers) ==
    IF markers = {} THEN {text}
    ELSE UNION {MarkerLoop(Strip(Replace(Lower(text), m, <<>>)), markers \ {m}) :
                    m \in markers}

text_without_marker(plain_text) ==
    MarkerLoop(Strip(Lower(plain_text)),
               {m \in USELESS_MARKERS : IsSubsequence(m, Lower(plain_text))})

\* the test without the set of seen lines, which the dedup law must tell apart
IsNewLineIgnoringSeen(plain_text, seen) == plain_text # <<>>

\* the deduplication test of a text line against the lines of the paragraph
IsNewLine(plain_text, seen) == plain_text # <<>> /\ plain_text \notin seen

\* closing the paragraph in progress at every pause, with or without text in
\* it, which the law of empty paragraphs must tell apart
IsPauseWhateverBuffer(start_time, end_time, threshold, block_text) ==
    /\ ~end_time.isNone
    /\ ~start_time.isNone
    /\ FloatSubGE(start_time, end_time, threshold)

\* whether a cue starting at start_time closes the paragraph in progress
IsPause(start_time, end_time, threshold, block_text) ==
    /\ ~end_time.isNone
    /\ ~start_time.isNone
    /\ FloatSubGE(start_time, end_time, threshold)
    /\ block_text # <<>>

\* the second pass: one paragraph per block that has text
RECURSIVE Paragraphs(_)
Paragraphs(bs) ==
    IF bs = <<>> THEN <<>>
    ELSE LET paragraph ==
                 Strip(Sub("RE_MULTIPLE_SPACES", <<" ">>, Join(Head(bs).text, <<" ">>)))
         IN  IF Head(bs).text = <<>> \/ paragraph = <<>>
             THEN Paragraphs(Tail(bs))
             ELSE <<paragraph>> \o Paragraphs(Tail(bs))

(***************************************************************************)
(* consolidator.py                                                         *)
(***************************************************************************)
\* str.lstrip(chars)
RECURSIVE LStripChars(_, _)
LStripChars(s, chars) ==
    IF s # <<>> /\ Head(s) \in chars THEN LStripChars(Tail(s), chars) ELSE s

\* str(n) of a natural number
RECURSIVE Str(_)
Str(n) == IF n < 10 THEN <<Digits[n + 1]>> ELSE Str(n \div 10) \o <<Digits[(n % 10) + 1]>>

\* f"{n:02d}"
Format02d(n) == IF n < 10 THEN <<"0">> \o Str(n) ELSE Str(n)

validate_markdown_file(content) ==
    IF content = <<>> THEN FALSE ELSE StartsWith(Strip(content), <<"#", " ">>)

extract_title(content) == Strip(LStripChars(Split(content, "\n")[1], {"#", " "}))

\* the quotient rounded down, which the volume count must not be
TotalVolumesRoundedDown(total_files, per_volume) == total_files \div per_volume

\* math.ceil(total_files / transcripts_per_volume)
TotalVolumes(total_files, per_volume) == (total_files + per_volume - 1) \div per_volume

\* f"{channel_name}_Vol{vol_num + 1:02d}.txt"
VolumeName(channel_name, vol_num) ==
    channel_name \o <<"_", "V", "o", "l">> \o Format02d(vol_num + 1) \o <<".", "t", "x", "t">>

\* md_files[start:end]
Slice(files, start, end) ==
    SubSeq(files, start + 1, IF end < Len(files) THEN end ELSE Len(files))

\* the number an index line gets
IndexNumber(start, included_count) == start + included_count + 1

\* whether SEPARATOR is appended after the body at position idx of the batch
SeparatorFollows(idx, batch_len) == idx < batch_len - 1

\* leaving out only the files read_text fails on, which the accounting of
\* skipped documents must tell apart
IsSkippedOnlyUnreadable(md_file) == ~md_file.readable

\* whether a file of the batch is left out of the volume: read_text raised, or
\* the content is not a markdown document
IsSkipped(md_file) == ~md_file.readable \/ ~validate_markdown_file(md_file.content)

\* The loop over one batch, from position idx on.  acc holds the locals
\* content_parts, index_entries and included_count and the list skipped.  A
\* part is a record: kind is "header", "body", "separator" or "index"; file
\* is the name of the markdown file a body or an index line comes from.
RECURSIVE BatchLoop(_, _, _, _)
BatchLoop(batch, idx, start, acc) ==
    IF idx >= Len(batch) THEN acc
    ELSE LET md_file == batch[idx + 1]
             entry == [kind |-> "index",
                       file |-> md_file.name,
                       number |-> IndexNumber(start, acc.included_count),
                       text |-> extract_title(md_file.content)]
             body == [kind |-> "body", file |-> md_file.name, number |-> 0,
                      text |-> md_file.content]
             sep == [kind |-> "separator", file |-> <<>>, number |-> 0,
                     text |-> <<>>]
         IN  IF IsSkipped(md_file)
             THEN BatchLoop(batch, idx + 1, start,
                            [acc EXCEPT !.skipped = Append(@, md_file.name)])
             ELSE BatchLoop(batch, idx + 1, start,
                            [acc EXCEPT
                                !.index_entries = Append(@, entry),
                                !.content_parts =
                                    IF SeparatorFollows(idx, Len(batch))
                                    THEN @ \o <<body, sep>>
                                    ELSE Append(@, body),
                                !.included_count = @ + 1])

\* a result that counts only the documents included, which the manifest's
\* total must tell apart
ChannelResultCountingIncluded(total_files, volumes, skipped) ==
    [total |-> total_files - Len(skipped), volumes |-> volumes, skipped |-> skipped]

\* what consolidate_channel returns
ChannelResult(total_files, volumes, skipped) ==
    [total |-> total_files, volumes |-> volumes, skipped |-> skipped]

\* The loop over the volumes, from vol_num on.  out holds the lists volumes
\* and skipped and the files written: written[k] is volume k, its name, the
\* item range of its header and its parts (content_parts, then the index).
RECURSIVE VolumeLoop(_, _, _, _, _)
VolumeLoop(md_files, channel_name, per_volume, vol_num, out) ==
    IF vol_num >= TotalVolumes(Len(md_files), per_volume) THEN out
    ELSE LET start == vol_num * per_volume
             end == start + per_volume
             batch == Slice(md_files, start, end)
             volume_name == VolumeName(channel_name, vol_num)
             header == [kind |-> "header", file |-> <<>>, number |-> vol_num + 1,
                        text |-> <<>>]
             acc == BatchLoop(batch, 0, start,
                              [content_parts |-> <<header>>,
                               index_entries |-> <<>>,
                               included_count |-> 0,
                               skipped |-> out.skipped])
             volume == [name |-> volume_name,
                        of |-> TotalVolumes(Len(md_files), per_volume),
                        first |-> start + 1,
                        last |-> start + Len(batch),
                        parts |-> acc.content_parts \o acc.index_entries]
         IN  VolumeLoop(md_files, channel_name, per_volume, vol_num + 1,
                        [volumes |-> Append(out.volumes, volume_name),
                         skipped |-> acc.skipped,
                         written |-> Append(out.written, volume)])

\* consolidate_channel: its result and the volume files it writes, in order
consolidate_channel(md_files, channel_name, per_volume) ==
    IF md_files = <<>>
    THEN [result |-> ChannelResult(0, <<>>, <<>>), written |-> <<>>]
    ELSE LET out == VolumeLoop(md_files, channel_name, per_volume, 0,
                               [volumes |-> <<>>, skipped |-> <<>>, written |-> <<>>])
         IN  [result |-> ChannelResult(Len(md_files), out.volumes, out.skipped),
              written |-> out.written]

\* the entry consolidate_all puts in the manifest for one channel
ManifestEntry(result) ==
    [total_transcripciones |-> result.total,
     volumenes |-> result.volumes,
     archivos_omitidos |-> [is_none |-> result.skipped = <<>>,
                            names |-> result.skipped]]

(***************************************************************************)
(* utils.py                                                                *)
(***************************************************************************)
EndsWith(s, t) == Len(s) >= Len(t) /\ MatchAt(s, Len(s) - Len(t) + 1, t)

\* re.sub(pattern + '$', '', name, flags=re.IGNORECASE) for a pattern that is
\* one of a set of literal suffixes, none of which is a suffix of another
RemoveSuffixIgnoreCase(name, suffixes) ==
    IF \E t \in suffixes : EndsWith(Lower(name), Lower(t))
    THEN LET t == CHOOSE t \in suffixes : EndsWith(Lower(name), Lower(t))
         IN  SubSeq(name, 1, Len(name) - Len(t))
    ELSE name

\* what r'\.(en|es|en-US|es-ES)?\.vtt$' can match
LanguageSuffixes ==
    {<<".", "e", "n", ".", "v", "t", "t">>, <<".", "e", "s", ".", "v", "t", "t">>, <<".", "e", "n", "-", "U", "S", ".", "v", "t", "t">>, <<".", "e", "s", "-", "E", "S", ".", "v", "t", "t">>, <<".", ".", "v", "t", "t">>}

extract_base_name(filepath) ==
    RemoveSuffixIgnoreCase(RemoveSuffixIgnoreCase(filepath, LanguageSuffixes),
                           {<<".", "v", "t", "t">>})

is_regional_variant(filepath) ==
    LET name == Lower(filepath)
    IN  \/ Contains(name, <<".", "e", "n", "-", "u", "s", ".">>)
        \/ Contains(name, <<".", "e", "s", "-", "e", "s", ".">>)
        \/ Contains(name, <<"_", "e", "n", "-", "u", "s", ".">>)
        \/ Contains(name, <<"_", "e", "s", "-", "e", "s", ".">>)

get_language_from_filename(filename) ==
    LET name == Lower(filename)
    IN  IF Contains(name, <<".", "e", "n", "-", "u", "s", ".">>) \/ Contains(name, <<"_", "e", "n", "-", "u", "s", ".">>) THEN <<"E", "N", "-", "U", "S">>
        ELSE IF Contains(name, <<".", "e", "n", ".">>) \/ Contains(name, <<"_", "e", "n", ".">>) THEN <<"E", "N">>
        ELSE IF Contains(name, <<".", "e", "s", "-", "e", "s", ".">>) \/ Contains(name, <<"_", "e", "s", "-", "e", "s", ".">>) THEN <<"E", "S", "-", "E", "S">>
        ELSE IF Contains(name, <<".", "e", "s", ".">>) \/ Contains(name, <<"_", "e", "s", ".">>) THEN <<"E", "S">>
        ELSE <<"E", "S">>

\* f"{base_name} [{language}].md"
get_output_filename(base_name, language) ==
    base_name \o <<" ", "[">> \o language \o <<"]", ".", "m", "d">>

(***************************************************************************)
(* select_best_subtitle_file                                               *)
(***************************************************************************)
\* a test no name passes, which the preference for two-letter suffixes must
\* tell apart
RE_TWO_LETTER_VTT_never(f) == FALSE

\* re.search(r'\.[a-z]{2}\.vtt$', f, re.IGNORECASE)
RE_TWO_LETTER_VTT(f) ==
    /\ Len(f) >= 7
    /\ f[Len(f) - 6] = "."
    /\ IsAlpha(f[Len(f) - 5])
    /\ IsAlpha(f[Len(f) - 4])
    /\ EndsWith(Lower(f), <<".", "v", "t", "t">>)

\* [f for f in files if f.startswith(base_name)]
matching_files(files, base_name) == SelectSeq(files, LAMBDA f : StartsWith(f, base_name))

\* the first file the loop returns, when there is one
FirstTwoLetter(matching) == SelectSeq(matching, RE_TWO_LETTER_VTT)

select_best_subtitle_file(files, base_name) ==
    LET matching == matching_files(files, base_name)
    IN  IF matching = <<>> THEN [is_none |-> TRUE, name |-> <<>>]
        ELSE IF FirstTwoLetter(matching) # <<>>
        THEN [is_none |-> FALSE, name |-> Head(FirstTwoLetter(matching))]
        ELSE [is_none |-> FALSE, name |-> matching[1]]

(***************************************************************************)
(* State.                                                                  *)
(***************************************************************************)
VARIABLES
    \* clean_vtt_content: its arguments, its locals and its result
    lines, pause_threshold, i, current_end_time, current_block_text,
    seen_lines, blocks, final_text, seg_pc,
    \* history of clean_vtt_content: one record per text line that passed the
    \* marker filter, [line, cue, para, text, kept]: its index in lines, the index
    \* of the cue-timing line before it (0 when none), the number of the
    \* paragraph in progress, its sanitized text, whether it was appended;
    \* and the index of the last cue-timing line so far
    fed, last_cue,
    \* consolidate_all: the folder _biblioteca, the argument, the folder
    \* _exports with its manifest.json, and the locals of the run
    biblioteca_exists, biblioteca, stray_file, transcripts_per_volume,
    exports, manifest_file, manifest, pending, con_pc,
    \* process_directory: the folders under base_dir and their caption files,
    \* the folders os.walk has yet to visit, the dict channel_files and the
    \* order of its keys, the channel and the files of the loop in progress,
    \* processed_bases, the documents written under _biblioteca, stats
    tree_dirs, tree_files, walk_pending, channel_files, channel_order,
    current_channel, vtt_files, processed_bases, outputs, stats, dir_pc,
    \* history of process_directory: what process_single_file returned per file
    results,
    \* select_best_subtitle_file: its arguments and what it returns
    files, base_name, selected, sel_pc,
    \* one text line of clean_vtt_content, from the sanitizer to the
    \* deduplication: the stripped line, and the text appended to the paragraph
    text_line, kept_text, flt_pc,
    \* parse_vtt_timestamp: its argument and what the call ends with
    timestamp_arg, timestamp_result, ts_pc,
    \* capitalize_sentences: its argument and what it returns
    cap_arg, cap_result, cap_pc,
    \* AdaptiveRateLimiter: its attributes
    base_sleep, max_sleep, backoff_count, decay_rate, current_sleep,
    backoff_requests, lim_pc,
    \* history of the limiter: the calls of on_rate_limit so far, and the calls
    \* of on_success since the last on_rate_limit (-1 before the first)
    rate_limits, successes_since,
    \* what get_sleep_time returned last
    sleep_time,
    \* consolidate_all run again on the same base directory: the number of the run
    run_number,
    \* Downloader: the url of the call, what the retrieval did, the statistics
    \* of the call, what the call did in order, the calls so far, its position
    dl_url, dl_outcome, dl_stats, dl_trace, dl_calls, dl_pc,
    \* create_markdown_output and the batcher reading its document
    fmt_args, fmt_document, fmt_valid, fmt_title, fmt_pc,
    \* a caption file name and what each cleaning path makes of it
    nam_filename, nam_callback, nam_directory, nam_pc

seg_vars == <<lines, pause_threshold, i, current_end_time, current_block_text,
              seen_lines, blocks, final_text, seg_pc, fed, last_cue>>

con_vars == <<biblioteca_exists, biblioteca, stray_file, transcripts_per_volume,
              exports, manifest_file, manifest, pending, con_pc>>

dir_vars == <<tree_dirs, tree_files, walk_pending, channel_files, channel_order,
              current_channel, vtt_files, processed_bases, outputs, stats, dir_pc,
              results>>

sel_vars == <<files, base_name, selected, sel_pc>>

flt_vars == <<text_line, kept_text, flt_pc>>

ts_vars == <<timestamp_arg, timestamp_result, ts_pc>>

cap_vars == <<cap_arg, cap_result, cap_pc>>

lim_vars == <<base_sleep, max_sleep, backoff_count, decay_rate, current_sleep,
              backoff_requests, lim_pc, rate_limits, successes_since, sleep_time>>

run_vars == <<run_number>>

dl_vars == <<dl_url, dl_outcome, dl_stats, dl_trace, dl_calls, dl_pc>>

fmt_vars == <<fmt_args, fmt_document, fmt_valid, fmt_title, fmt_pc>>

nam_vars == <<nam_filename, nam_callback, nam_directory, nam_pc>>

vars == <<seg_vars, con_vars, dir_vars, sel_vars, flt_vars, ts_vars, cap_vars,
          lim_vars, run_vars, dl_vars, fmt_vars, nam_vars>>

(***************************************************************************)
(* clean_vtt_content                                                       *)
(***************************************************************************)
\* "HH:MM:SS.mmm" of a number of milliseconds
TimestampText(ms) ==
    LET two(n) == <<Digits[((n \div 10) % 10) + 1], Digits[(n % 10) + 1]>>
    IN  two(ms \div 3600000) \o <<":">> \o two((ms \div 60000) % 60) \o <<":">>
            \o two((ms \div 1000) % 60) \o <<".">>
            \o <<Digits[((ms \div 100) % 10) + 1]>> \o two(ms % 100)

CueLine(start, end) == TimestampText(start) \o <<" ", "-", "-", ">", " ">> \o TimestampText(end)

\* the caption lines the inputs are made of: a blank line, three cue-timing
\* lines (1.504 s -> 4.004 s and 5.000 s -> 7.500 s are pauses of 2.5 s), two
\* lines of speech, one with markup, and an annotation
SampleLines ==
    {<<>>,
     CueLine(0, 1504),
     CueLine(4004, 5000),
     CueLine(7500, 60100),
     <<"h", "i">>,
     <<"<", "c", ">", "y", "o", "<", "/", "c", ">">>,
     <<"[", "M", "u", "s", "i", "c", "]">>}

\* the pause thresholds of the inputs, in milliseconds (2.5 is the default)
SampleThresholds == {2500, 3000}

SegIdle ==
    /\ lines = <<>>
    /\ pause_threshold = 0
    /\ i = 0
    /\ current_end_time = None
    /\ current_block_text = <<>>
    /\ seen_lines = {}
    /\ blocks = <<>>
    /\ final_text = <<>>
    /\ seg_pc = "idle"
    /\ fed = <<>>
    /\ last_cue = 0

SegStart ==
    /\ lines \in {<<>>} \cup [1..MaxLines -> SampleLines]
    /\ pause_threshold \in SampleThresholds
    /\ i = 0
    /\ current_end_time = None
    /\ current_block_text = <<>>
    /\ seen_lines = {}
    /\ blocks = <<>>
    /\ final_text = <<>>
    /\ seg_pc = "loop"
    /\ fed = <<>>
    /\ last_cue = 0

\* what one pass of the loop computes from the line alone: the stripped line,
\* the branch it takes, the parsed times of a cue-timing line, the sanitized
\* text of a text line and whether the marker filter discards it
LoopBody(raw) ==
    LET stripped == Strip(raw)
        match_time == RE_TIMESTAMP_LINE(stripped)
        plain == SanitizeLine(stripped)
    IN  [line |-> stripped,
         branch |-> IF IsMetadataLine(stripped) THEN "metadata"
                    ELSE IF match_time.matched THEN "timestamp"
                    ELSE "text",
         start_time |-> parse_vtt_timestamp(match_time.group1),
         end_time |-> parse_vtt_timestamp(match_time.group2),
         plain_text |-> plain,
         is_marker |-> Lower(plain) \in USELESS_MARKERS,
         text_without_marker |-> text_without_marker(plain)]

\* LoopBody of every sample line, computed once
LineTable == [raw \in SampleLines |-> LoopBody(raw)]

\* pass i of the loop, when there is one
body == IF i < Len(lines) THEN {LineTable[lines[i + 1]]} ELSE {}

\* if not content: return ""
EmptyContent ==
    /\ seg_pc = "loop"
    /\ lines = <<>>
    /\ final_text' = <<>>
    /\ seg_pc' = "done"
    /\ UNCHANGED <<lines, pause_threshold, i, current_end_time, current_block_text,
                   seen_lines, blocks, fed, last_cue>>
    /\ UNCHANGED <<con_vars, dir_vars, sel_vars, flt_vars, ts_vars, cap_vars, lim_vars,
                   run_vars, dl_vars, fmt_vars, nam_vars>>

\* the loop body on a metadata line
MetadataLine ==
    \E pass \in body :
        /\ seg_pc = "loop"
        /\ pass.branch = "metadata"
        /\ i' = i + 1
        /\ UNCHANGED <<lines, pause_threshold, current_end_time, current_block_text,
                       seen_lines, blocks, final_text, seg_pc, fed, last_cue>>
        /\ UNCHANGED <<con_vars, dir_vars, sel_vars, flt_vars, ts_vars, cap_vars, lim_vars,
                       run_vars, dl_vars, fmt_vars, nam_vars>>

\* a loop body that keeps the old end time at a cue that closes a paragraph
TimestampLineKeepingEndAtBreak ==
    \E pass \in body :
        /\ seg_pc = "loop"
        /\ pass.branch = "timestamp"
        /\ LET start_time == pass.start_time
               end_time == pass.end_time
           IN  IF IsPause(start_time, current_end_time, pause_threshold,
                          current_block_text)
               THEN /\ blocks' = Append(blocks, [text |-> current_block_text,
                                                 is_new_paragraph |-> TRUE])
                    /\ current_block_text' = <<>>
                    /\ seen_lines' = {}
                    /\ UNCHANGED current_end_time
               ELSE /\ current_end_time' = end_time
                    /\ UNCHANGED <<blocks, current_block_text, seen_lines>>
        /\ i' = i + 1
        /\ last_cue' = i + 1
        /\ UNCHANGED <<lines, pause_threshold, final_text, seg_pc, fed>>
        /\ UNCHANGED <<con_vars, dir_vars, sel_vars, flt_vars, ts_vars, cap_vars, lim_vars,
                       run_vars, dl_vars, fmt_vars, nam_vars>>

\* a loop body that empties the buffer at a paragraph break and leaves the set
TimestampLineKeepingSeenLines ==
    \E pass \in body :
        /\ seg_pc = "loop"
        /\ pass.branch = "timestamp"
        /\ LET start_time == pass.start_time
               end_time == pass.end_time
           IN  /\ IF IsPause(start_time, current_end_time, pause_threshold,
                             current_block_text)
                  THEN /\ blocks' = Append(blocks, [text |-> current_block_text,
                                                    is_new_paragraph |-> TRUE])
                       /\ current_block_text' = <<>>
                       /\ UNCHANGED seen_lines
                  ELSE UNCHANGED <<blocks, current_block_text, seen_lines>>
               /\ current_end_time' = end_time
        /\ i' = i + 1
        /\ last_cue' = i + 1
        /\ UNCHANGED <<lines, pause_threshold, final_text, seg_pc, fed>>
        /\ UNCHANGED <<con_vars, dir_vars, sel_vars, flt_vars, ts_vars, cap_vars, lim_vars,
                       run_vars, dl_vars, fmt_vars, nam_vars>>

\* the loop body on a cue-timing line
TimestampLine ==
    \E pass \in body :
        /\ seg_pc = "loop"
        /\ pass.branch = "timestamp"
        /\ LET start_time == pass.start_time
               end_time == pass.end_time
           IN  /\ IF IsPause(start_time, current_end_time, pause_threshold,
                             current_block_text)
                  THEN /\ blocks' = Append(blocks, [text |-> current_block_text,
                                                    is_new_paragraph |-> TRUE])
                       /\ current_block_text' = <<>>
                       /\ seen_lines' = {}
                  ELSE UNCHANGED <<blocks, current_block_text, seen_lines>>
               /\ current_end_time' = end_time
        /\ i' = i + 1
        /\ last_cue' = i + 1
        /\ UNCHANGED <<lines, pause_threshold, final_text, seg_pc, fed>>
        /\ UNCHANGED <<con_vars, dir_vars, sel_vars, flt_vars, ts_vars, cap_vars, lim_vars,
                       run_vars, dl_vars, fmt_vars, nam_vars>>

\* the loop body on a text line the marker filter discards
MarkerLine ==
    \E pass \in body :
        /\ seg_pc = "loop"
        /\ pass.branch = "text"
        /\ pass.is_marker \/ <<>> \in pass.text_without_marker
        /\ i' = i + 1
        /\ UNCHANGED <<lines, pause_threshold, current_end_time, current_block_text,
                       seen_lines, blocks, final_text, seg_pc, fed, last_cue>>
        /\ UNCHANGED <<con_vars, dir_vars, sel_vars, flt_vars, ts_vars, cap_vars, lim_vars,
                       run_vars, dl_vars, fmt_vars, nam_vars>>

\* the loop body on a text line that passes the marker filter
TextLine ==
    \E pass \in body :
        /\ seg_pc = "loop"
        /\ pass.branch = "text"
        /\ LET plain_text == pass.plain_text
               new == IsNewLine(plain_text, seen_lines)
           IN  /\ ~pass.is_marker
               /\ \E rest \in pass.text_without_marker : rest # <<>>
               /\ IF new
                  THEN /\ current_block_text' = Append(current_block_text, plain_text)
                       /\ seen_lines' = seen_lines \cup {plain_text}
                  ELSE UNCHANGED <<current_block_text, seen_lines>>
               /\ fed' = Append(fed, [line |-> i + 1,
                                      cue |-> last_cue,
                                      para |-> Len(blocks) + 1,
                                      text |-> plain_text,
                                      kept |-> new])
        /\ i' = i + 1
        /\ UNCHANGED <<lines, pause_threshold, current_end_time, blocks, final_text,
                       seg_pc, last_cue>>
        /\ UNCHANGED <<con_vars, dir_vars, sel_vars, flt_vars, ts_vars, cap_vars, lim_vars,
                       run_vars, dl_vars, fmt_vars, nam_vars>>

\* after the loop: the last block, the second pass, the capitalizer
Finish ==
    /\ seg_pc = "loop"
    /\ lines # <<>>
    /\ i >= Len(lines)
    /\ blocks' = IF current_block_text # <<>>
                 THEN Append(blocks, [text |-> current_block_text,
                                      is_new_paragraph |-> FALSE])
                 ELSE blocks
    /\ final_text' = capitalize_sentences(Join(Paragraphs(blocks'), <<"\n", "\n">>))
    /\ seg_pc' = "done"
    /\ UNCHANGED <<lines, pause_threshold, i, current_end_time, current_block_text,
                   seen_lines, fed, last_cue>>
    /\ UNCHANGED <<con_vars, dir_vars, sel_vars, flt_vars, ts_vars, cap_vars, lim_vars,
                   run_vars, dl_vars, fmt_vars, nam_vars>>

SegNext ==
    \/ EmptyContent
    \/ MetadataLine
    \/ TimestampLine
    \/ MarkerLine
    \/ TextLine
    \/ Finish

(***************************************************************************)
(* consolidate_all                                                         *)
(***************************************************************************)
\* the channel folders of _biblioteca
Channels == {<<"A">>, <<"B">>}

\* the file names a channel folder can hold, by position in sorted order
Slots(c) == IF c = <<"A">> THEN 1..MaxDocs ELSE 1..MaxDocsB

\* what a markdown file can be: a transcript, a text without heading, an empty
\* file, a file read_text cannot decode; "absent" is no file
DocKinds == {"valid", "invalid", "empty", "unreadable", "absent"}

\* the markdown file of a channel folder at a slot
Document(k, kind) ==
    [name |-> Str(k) \o <<".", "m", "d">>,
     readable |-> kind # "unreadable",
     content |-> CASE kind = "valid" -> <<"#", " ", "t">> \o Str(k) \o <<"\n">> \o <<"x">>
                   [] kind = "invalid" -> <<"x">>
                   [] OTHER -> <<>>]

\* sorted(channel_biblioteca.glob("*.md")) of a folder
RECURSIVE SortedGlob(_, _)
SortedGlob(folder, k) ==
    IF k \notin DOMAIN folder THEN <<>>
    ELSE (IF folder[k] = "absent" THEN <<>> ELSE <<Document(k, folder[k])>>)
             \o SortedGlob(folder, k + 1)

md_files(c) == SortedGlob(biblioteca[c], 1)

\* a file system folder as a function from file names; writing replaces
WriteAll(folder, written) ==
    LET names == {written[k].name : k \in 1..Len(written)}
        file(n) == written[CHOOSE k \in 1..Len(written) : written[k].name = n]
    IN  [n \in DOMAIN folder \cup names |->
            IF n \in names THEN file(n) ELSE folder[n]]

ConIdle ==
    /\ biblioteca_exists = FALSE
    /\ biblioteca = <<>>
    /\ stray_file = FALSE
    /\ transcripts_per_volume = 0
    /\ exports = <<>>
    /\ manifest_file = [exists |-> FALSE, channels |-> <<>>]
    /\ manifest = <<>>
    /\ pending = {}
    /\ con_pc = "idle"

ConStart ==
    /\ biblioteca_exists \in BOOLEAN
    /\ IF biblioteca_exists
       THEN /\ \E a \in [Slots(<<"A">>) -> DocKinds], b \in [Slots(<<"B">>) -> DocKinds] :
                   biblioteca = [c \in Channels |-> IF c = <<"A">> THEN a ELSE b]
            /\ stray_file \in BOOLEAN
       ELSE /\ biblioteca = [c \in Channels |-> <<>>]
            /\ stray_file = FALSE
    /\ transcripts_per_volume \in 1..MaxPerVolume
    /\ exports = <<>>
    /\ manifest_file = [exists |-> FALSE, channels |-> <<>>]
    /\ manifest = <<>>
    /\ pending = {}
    /\ con_pc = "start"

\* if not biblioteca_dir.exists(): return manifest
MissingBiblioteca ==
    /\ con_pc = "start"
    /\ ~biblioteca_exists
    /\ con_pc' = "done"
    /\ UNCHANGED <<biblioteca_exists, biblioteca, stray_file, transcripts_per_volume,
                   exports, manifest_file, manifest, pending>>
    /\ UNCHANGED <<seg_vars, dir_vars, sel_vars, flt_vars, ts_vars, cap_vars, lim_vars,
                   run_vars, dl_vars, fmt_vars, nam_vars>>

\* biblioteca_dir.iterdir()
ListBiblioteca ==
    /\ con_pc = "start"
    /\ biblioteca_exists
    /\ pending' = Channels \cup (IF stray_file THEN {<<"s", "t", "r", "a", "y">>} ELSE {})
    /\ con_pc' = "iterdir"
    /\ UNCHANGED <<biblioteca_exists, biblioteca, stray_file, transcripts_per_volume,
                   exports, manifest_file, manifest>>
    /\ UNCHANGED <<seg_vars, dir_vars, sel_vars, flt_vars, ts_vars, cap_vars, lim_vars,
                   run_vars, dl_vars, fmt_vars, nam_vars>>

\* if not channel_dir.is_dir(): continue
NotADirectory ==
    /\ con_pc = "iterdir"
    /\ <<"s", "t", "r", "a", "y">> \in pending
    /\ pending' = pending \ {<<"s", "t", "r", "a", "y">>}
    /\ UNCHANGED <<biblioteca_exists, biblioteca, stray_file, transcripts_per_volume,
                   exports, manifest_file, manifest, con_pc>>
    /\ UNCHANGED <<seg_vars, dir_vars, sel_vars, flt_vars, ts_vars, cap_vars, lim_vars,
                   run_vars, dl_vars, fmt_vars, nam_vars>>

\* one pass of the loop over the channel folders, in the order iterdir gives
ConsolidateChannel(channel_name) ==
    /\ con_pc = "iterdir"
    /\ channel_name \in pending \cap Channels
    /\ LET run == consolidate_channel(md_files(channel_name), channel_name,
                                      transcripts_per_volume)
       IN  /\ exports' = WriteAll(exports, run.written)
           /\ manifest' = [c \in DOMAIN manifest \cup {channel_name} |->
                               IF c = channel_name THEN ManifestEntry(run.result)
                               ELSE manifest[c]]
    /\ pending' = pending \ {channel_name}
    /\ UNCHANGED <<biblioteca_exists, biblioteca, stray_file, transcripts_per_volume,
                   manifest_file, con_pc>>
    /\ UNCHANGED <<seg_vars, dir_vars, sel_vars, flt_vars, ts_vars, cap_vars, lim_vars,
                   run_vars, dl_vars, fmt_vars, nam_vars>>

\* manifest_path.write_text(json.dumps(manifest, ...))
SaveManifest ==
    /\ con_pc = "iterdir"
    /\ pending = {}
    /\ manifest_file' = [exists |-> TRUE, channels |-> manifest]
    /\ con_pc' = "done"
    /\ UNCHANGED <<biblioteca_exists, biblioteca, stray_file, transcripts_per_volume,
                   exports, manifest, pending>>
    /\ UNCHANGED <<seg_vars, dir_vars, sel_vars, flt_vars, ts_vars, cap_vars, lim_vars,
                   run_vars, dl_vars, fmt_vars, nam_vars>>

ConNext ==
    \/ MissingBiblioteca
    \/ ListBiblioteca
    \/ NotADirectory
    \/ \E channel_name \in Channels : ConsolidateChannel(channel_name)
    \/ SaveManifest

(***************************************************************************)
(* consolidate_all run again on the same base directory.  Nothing in the   *)
(* code removes a file: _exports keeps what earlier runs wrote.            *)
(***************************************************************************)
\* what a markdown file is in the runs below
RerunKinds == {"valid", "invalid", "absent"}

\* the first run
RunStart ==
    /\ run_number = 1
    /\ \A c \in DOMAIN biblioteca : \A k \in DOMAIN biblioteca[c] :
           biblioteca[c][k] \in RerunKinds

\* consolidate_all is called again: _biblioteca is what the user has made of it
\* in between, _exports is as the runs before left it
NextRun ==
    /\ con_pc = "done"
    /\ run_number >= 1
    /\ run_number < MaxRuns
    /\ \E exists \in BOOLEAN, a \in [Slots(<<"A">>) -> RerunKinds],
          b \in [Slots(<<"B">>) -> RerunKinds] :
           /\ biblioteca_exists' = exists
           /\ biblioteca' = IF exists
                            THEN [c \in Channels |-> IF c = <<"A">> THEN a ELSE b]
                            ELSE [c \in Channels |-> <<>>]
           /\ stray_file' \in (IF exists THEN BOOLEAN ELSE {FALSE})
    /\ transcripts_per_volume' \in 1..MaxPerVolume
    /\ manifest' = <<>>
    /\ pending' = {}
    /\ con_pc' = "start"
    /\ run_number' = run_number + 1
    /\ UNCHANGED <<exports, manifest_file>>
    /\ UNCHANGED <<seg_vars, dir_vars, sel_vars, flt_vars, ts_vars, cap_vars, lim_vars,
                   dl_vars, fmt_vars, nam_vars>>

RerunNext ==
    \/ ConNext
    \/ NextRun

(***************************************************************************)
(* process_directory                                                       *)
(***************************************************************************)
\* the folders with caption files: base_dir/A, and a second folder that is
\* base_dir/B or base_dir/X/A, whose name is A again
Dirs == {"d1", "d2"}

SampleDirNames == {[d \in Dirs |-> <<"A">>], [d \in Dirs |-> IF d = "d1" THEN <<"A">> ELSE <<"B">>]}

\* the caption file names of the inputs
SampleNames ==
    {<<"v", ".", "e", "n", ".", "v", "t", "t">>, <<"v", ".", "E", "N", ".", "v", "t", "t">>, <<"v", ".", "e", "s", ".", "v", "t", "t">>, <<"v", ".", "e", "n", "-", "U", "S", ".", "v", "t", "t">>, <<"v", ".", "e", "s", "-", "E", "S", ".", "v", "t", "t">>}

\* What a caption file holds, by what reading and cleaning it gives:
\* "speech" cleans to text, "silent" (only annotations) cleans to the empty
\* string, "undecodable" makes read_text raise.
ContentKinds == {"speech", "silent", "undecodable"}

\* clean_vtt_content(content) of a readable file
Cleaned(kind) == IF kind = "speech" THEN <<"H", "e", "l", "l", "o", " ", "t", "h", "e", "r", "e">> ELSE <<>>

Paths == [dir : Dirs, name : SampleNames]

\* what utils.py gives for each of the names, computed once
NameTable ==
    [name \in SampleNames |->
        [extract_base_name |-> extract_base_name(name),
         is_regional_variant |-> is_regional_variant(name),
         get_language_from_filename |-> get_language_from_filename(name),
         is_vtt |-> EndsWith(Lower(name), <<".", "v", "t", "t">>)]]

\* the characters of the file names, in the order of their code points
CodePointOrder ==
    <<" ", "-", ".">> \o Digits \o UpperAlpha \o <<"[", "]", "_">> \o LowerAlpha

Ord(c) == CHOOSE k \in 1..Len(CodePointOrder) : CodePointOrder[k] = c

\* a < b for Python strings
RECURSIVE StrLess(_, _)
StrLess(a, b) ==
    IF b = <<>> THEN FALSE
    ELSE IF a = <<>> THEN TRUE
    ELSE IF Head(a) = Head(b) THEN StrLess(Tail(a), Tail(b))
    ELSE Ord(Head(a)) < Ord(Head(b))

\* sort_key(f) = (1 if is_regional_variant(f.name) else 0, f.name)
sort_key(f) == [regional |-> IF NameTable[f.name].is_regional_variant THEN 1 ELSE 0,
                name |-> f.name]

KeyLess(j, k) ==
    \/ j.regional < k.regional
    \/ j.regional = k.regional /\ StrLess(j.name, k.name)

\* list.sort(key=sort_key): stable, so files with equal keys keep their order
RECURSIVE InsertSorted(_, _)
InsertSorted(f, sorted) ==
    IF sorted = <<>> THEN <<f>>
    ELSE IF KeyLess(sort_key(Head(sorted)), sort_key(f))
         THEN <<Head(sorted)>> \o InsertSorted(f, Tail(sorted))
         ELSE <<f>> \o sorted

RECURSIVE Sorted(_)
Sorted(listed) ==
    IF listed = <<>> THEN <<>> ELSE InsertSorted(Head(listed), Sorted(Tail(listed)))

DirIdle ==
    /\ tree_dirs = <<>>
    /\ tree_files = <<>>
    /\ walk_pending = {}
    /\ channel_files = <<>>
    /\ channel_order = <<>>
    /\ current_channel = 0
    /\ vtt_files = <<>>
    /\ processed_bases = {}
    /\ outputs = <<>>
    /\ stats = [processed |-> 0, skipped |-> 0, errors |-> 0]
    /\ dir_pc = "idle"
    /\ results = <<>>

DirStart ==
    /\ tree_dirs \in SampleDirNames
    /\ \E present \in SUBSET Paths :
           /\ Cardinality(present) <= MaxFiles
           /\ tree_files \in [present -> ContentKinds]
    /\ walk_pending = Dirs
    /\ channel_files = <<>>
    /\ channel_order = <<>>
    /\ current_channel = 0
    /\ vtt_files = <<>>
    /\ processed_bases = {}
    /\ outputs = <<>>
    /\ stats = [processed |-> 0, skipped |-> 0, errors |-> 0]
    /\ dir_pc = "walk"
    /\ results = <<>>

\* [root_path / f for f in files if f.lower().endswith('.vtt')]: the caption
\* files of a folder
VttFilesOf(d) == {p \in DOMAIN tree_files : p.dir = d /\ NameTable[p.name].is_vtt}

\* the lists a set of files can be listed as
Listings(S) ==
    {order \in [1..Cardinality(S) -> S] :
        \A j, k \in 1..Cardinality(S) : j # k => order[j] # order[k]}

\* one pass of the loop over os.walk: a folder, in the order the file system
\* gives the folders and the files
WalkDirectory(d) ==
    /\ dir_pc = "walk"
    /\ d \in walk_pending
    /\ walk_pending' = walk_pending \ {d}
    /\ LET channel_name == tree_dirs[d]
       IN  IF VttFilesOf(d) = {}
           THEN UNCHANGED <<channel_files, channel_order>>
           ELSE \E listed \in Listings(VttFilesOf(d)) :
                    /\ channel_files' =
                           [c \in DOMAIN channel_files \cup {channel_name} |->
                               IF c = channel_name
                               THEN (IF c \in DOMAIN channel_files
                                     THEN channel_files[c] ELSE <<>>) \o listed
                               ELSE channel_files[c]]
                    /\ channel_order' =
                           IF channel_name \in DOMAIN channel_files
                           THEN channel_order
                           ELSE Append(channel_order, channel_name)
    /\ UNCHANGED <<tree_dirs, tree_files, current_channel, vtt_files,
                   processed_bases, outputs, stats, dir_pc, results>>
    /\ UNCHANGED <<seg_vars, con_vars, sel_vars, flt_vars, ts_vars, cap_vars, lim_vars,
                   run_vars, dl_vars, fmt_vars, nam_vars>>

\* the head of the loop over channel_files.items(): processed_bases = set()
\* and vtt_files.sort(key=sort_key)
NextChannel ==
    /\ dir_pc \in {"walk", "process"}
    /\ walk_pending = {}
    /\ vtt_files = <<>>
    /\ current_channel < Len(channel_order)
    /\ current_channel' = current_channel + 1
    /\ processed_bases' = {}
    /\ vtt_files' = Sorted(channel_files[channel_order[current_channel + 1]])
    /\ dir_pc' = "process"
    /\ UNCHANGED <<tree_dirs, tree_files, walk_pending, channel_files,
                   channel_order, outputs, stats, results>>
    /\ UNCHANGED <<seg_vars, con_vars, sel_vars, flt_vars, ts_vars, cap_vars, lim_vars,
                   run_vars, dl_vars, fmt_vars, nam_vars>>

\* pattern.exists() for one of the two non-regional names in the folder of
\* the file
NonRegionalExists(vtt_path) ==
    \E suffix \in {<<".", "e", "n", ".", "v", "t", "t">>, <<".", "e", "s", ".", "v", "t", "t">>} :
        [dir |-> vtt_path.dir,
         name |-> NameTable[vtt_path.name].extract_base_name \o suffix]
            \in DOMAIN tree_files

\* what process_single_file returns for a file, given processed_bases
process_single_file(vtt_path, bases) ==
    IF NameTable[vtt_path.name].extract_base_name \in bases THEN "SKIPPED_DUPLICATE"
    ELSE IF NameTable[vtt_path.name].is_regional_variant /\ NonRegionalExists(vtt_path)
    THEN "SKIPPED_REGIONAL"
    ELSE IF tree_files[vtt_path] = "undecodable" THEN "ERROR"
    ELSE IF Strip(Cleaned(tree_files[vtt_path])) = <<>> THEN "SKIPPED_EMPTY"
    ELSE "SUCCESS"

\* the bookkeeping of the loop over vtt_files common to every result
Processed(result_type) ==
    /\ dir_pc = "process"
    /\ vtt_files # <<>>
    /\ process_single_file(Head(vtt_files), processed_bases) = result_type
    /\ vtt_files' = Tail(vtt_files)
    /\ results' = Append(results, [file |-> Head(vtt_files),
                                   channel |-> channel_order[current_channel],
                                   result |-> result_type])
    /\ UNCHANGED <<tree_dirs, tree_files, walk_pending, channel_files,
                   channel_order, current_channel, dir_pc>>
    /\ UNCHANGED <<seg_vars, con_vars, sel_vars, flt_vars, ts_vars, cap_vars, lim_vars,
                   run_vars, dl_vars, fmt_vars, nam_vars>>

\* the file's base is in processed_bases
SkippedDuplicate ==
    /\ Processed("SKIPPED_DUPLICATE")
    /\ stats' = [stats EXCEPT !.skipped = @ + 1]
    /\ UNCHANGED <<processed_bases, outputs>>

\* the file is a regional variant next to a non-regional file
SkippedRegional ==
    /\ Processed("SKIPPED_REGIONAL")
    /\ stats' = [stats EXCEPT !.skipped = @ + 1]
    /\ UNCHANGED <<processed_bases, outputs>>

\* an error that also records the base of the file as processed, which the
\* law of errors must tell apart
ErrorRecordingBase ==
    /\ Processed("ERROR")
    /\ stats' = [stats EXCEPT !.errors = @ + 1]
    /\ processed_bases' =
           processed_bases \cup {NameTable[Head(vtt_files).name].extract_base_name}
    /\ UNCHANGED outputs

\* read_text raised
Error ==
    /\ Processed("ERROR")
    /\ stats' = [stats EXCEPT !.errors = @ + 1]
    /\ UNCHANGED <<processed_bases, outputs>>

\* the cleaned text is empty
SkippedEmpty ==
    /\ Processed("SKIPPED_EMPTY")
    /\ stats' = [stats EXCEPT !.skipped = @ + 1]
    /\ UNCHANGED <<processed_bases, outputs>>

\* the document is written and the base recorded
Success ==
    /\ Processed("SUCCESS")
    /\ LET vtt_path == Head(vtt_files)
           channel_name == channel_order[current_channel]
           base == NameTable[vtt_path.name].extract_base_name
           language == NameTable[vtt_path.name].get_language_from_filename
           output_path == <<channel_name, get_output_filename(base, language)>>
       IN  /\ outputs' = [o \in DOMAIN outputs \cup {output_path} |->
                             IF o = output_path
                             THEN [source |-> vtt_path,
                                   content |-> Cleaned(tree_files[vtt_path])]
                             ELSE outputs[o]]
           /\ processed_bases' = processed_bases \cup {base}
    /\ stats' = [stats EXCEPT !.processed = @ + 1]

\* return stats
ReturnStats ==
    /\ dir_pc \in {"walk", "process"}
    /\ walk_pending = {}
    /\ vtt_files = <<>>
    /\ current_channel = Len(channel_order)
    /\ dir_pc' = "done"
    /\ UNCHANGED <<tree_dirs, tree_files, walk_pending, channel_files,
                   channel_order, current_channel, vtt_files, processed_bases,
                   outputs, stats, results>>
    /\ UNCHANGED <<seg_vars, con_vars, sel_vars, flt_vars, ts_vars, cap_vars, lim_vars,
                   run_vars, dl_vars, fmt_vars, nam_vars>>

DirNext ==
    \/ \E d \in Dirs : WalkDirectory(d)
    \/ NextChannel
    \/ SkippedDuplicate
    \/ SkippedRegional
    \/ Error
    \/ SkippedEmpty
    \/ Success
    \/ ReturnStats

(***************************************************************************)
(* select_best_subtitle_file as a call                                     *)
(***************************************************************************)
\* the file names and the base names of the calls
SampleCandidates ==
    {<<"v", ".", "e", "n", ".", "v", "t", "t">>, <<"v", ".", "E", "S", ".", "v", "t", "t">>, <<"v", ".", "e", "n", "-", "U", "S", ".", "v", "t", "t">>, <<"v", ".", "v", "t", "t">>, <<"v", "2", ".", "e", "s", ".", "v", "t", "t">>, <<"o", ".", "e", "n", ".", "v", "t", "t">>}

SampleBases == {<<"v">>, <<"v", "2">>}

SelIdle ==
    /\ files = <<>>
    /\ base_name = <<>>
    /\ selected = [is_none |-> TRUE, name |-> <<>>]
    /\ sel_pc = "idle"

SelStart ==
    /\ \E n \in 0..MaxCandidates : files \in [1..n -> SampleCandidates]
    /\ base_name \in SampleBases
    /\ selected = [is_none |-> TRUE, name |-> <<>>]
    /\ sel_pc = "call"

\* if not matching_files: return None
ReturnNone ==
    /\ sel_pc = "call"
    /\ matching_files(files, base_name) = <<>>
    /\ selected' = select_best_subtitle_file(files, base_name)
    /\ sel_pc' = "returned"
    /\ UNCHANGED <<files, base_name>>
    /\ UNCHANGED <<seg_vars, con_vars, dir_vars, flt_vars, ts_vars, cap_vars, lim_vars,
                   run_vars, dl_vars, fmt_vars, nam_vars>>

\* return f, from the loop
ReturnTwoLetter ==
    /\ sel_pc = "call"
    /\ FirstTwoLetter(matching_files(files, base_name)) # <<>>
    /\ selected' = select_best_subtitle_file(files, base_name)
    /\ sel_pc' = "returned"
    /\ UNCHANGED <<files, base_name>>
    /\ UNCHANGED <<seg_vars, con_vars, dir_vars, flt_vars, ts_vars, cap_vars, lim_vars,
                   run_vars, dl_vars, fmt_vars, nam_vars>>

\* return matching_files[0]
ReturnFirstMatching ==
    /\ sel_pc = "call"
    /\ matching_files(files, base_name) # <<>>
    /\ FirstTwoLetter(matching_files(files, base_name)) = <<>>
    /\ selected' = select_best_subtitle_file(files, base_name)
    /\ sel_pc' = "returned"
    /\ UNCHANGED <<files, base_name>>
    /\ UNCHANGED <<seg_vars, con_vars, dir_vars, flt_vars, ts_vars, cap_vars, lim_vars,
                   run_vars, dl_vars, fmt_vars, nam_vars>>

SelNext ==
    \/ ReturnNone
    \/ ReturnTwoLetter
    \/ ReturnFirstMatching

(***************************************************************************)
(* clean_vtt_content: one text line, from the sanitizer to the paragraph   *)
(***************************************************************************)
\* the pieces the text lines of the inputs are made of
SampleTokens ==
    {<<>>, <<"[", "M", "u", "s", "i", "c", "]">>, <<"[", "a", "p", "p", "l", "a", "u", "s", "e", "]">>, <<"[", "n", "o">>, <<"i", "s", "e", "]">>, << " " >>, <<"w", "o", "w">>, <<"t", "h", "i", "s", " ", "i", "s">>,
     <<".">>, <<"<", "c", ">">>}

\* every line of at most MaxTokens pieces
RECURSIVE TokenLines(_)
TokenLines(n) ==
    IF n = 0 THEN {<<>>}
    ELSE {t \o rest : t \in SampleTokens, rest \in TokenLines(n - 1)}

\* the lines that reach the sanitizer: stripped, and not skipped as metadata
SampleTextLines ==
    {Strip(l) : l \in {t \in TokenLines(MaxTokens) : ~IsMetadataLine(Strip(t))}}

FltStart ==
    /\ text_line \in SampleTextLines
    /\ kept_text = <<>>
    /\ flt_pc = "filter"

\* if plain_text.lower() in USELESS_MARKERS: continue
ExactMarker ==
    /\ flt_pc = "filter"
    /\ Lower(SanitizeLine(text_line)) \in USELESS_MARKERS
    /\ flt_pc' = "discarded"
    /\ UNCHANGED <<text_line, kept_text>>
    /\ UNCHANGED <<seg_vars, con_vars, dir_vars, sel_vars, ts_vars, cap_vars, lim_vars,
                   run_vars, dl_vars, fmt_vars, nam_vars>>

\* if not text_without_marker: continue
OnlyMarkers ==
    /\ flt_pc = "filter"
    /\ Lower(SanitizeLine(text_line)) \notin USELESS_MARKERS
    /\ <<>> \in text_without_marker(SanitizeLine(text_line))
    /\ flt_pc' = "discarded"
    /\ UNCHANGED <<text_line, kept_text>>
    /\ UNCHANGED <<seg_vars, con_vars, dir_vars, sel_vars, ts_vars, cap_vars, lim_vars,
                   run_vars, dl_vars, fmt_vars, nam_vars>>

\* the line passes the filter and, the paragraph being empty, is appended
KeepText ==
    /\ flt_pc = "filter"
    /\ Lower(SanitizeLine(text_line)) \notin USELESS_MARKERS
    /\ \E rest \in text_without_marker(SanitizeLine(text_line)) : rest # <<>>
    /\ IsNewLine(SanitizeLine(text_line), {})
    /\ kept_text' = SanitizeLine(text_line)
    /\ flt_pc' = "kept"
    /\ UNCHANGED text_line
    /\ UNCHANGED <<seg_vars, con_vars, dir_vars, sel_vars, ts_vars, cap_vars, lim_vars,
                   run_vars, dl_vars, fmt_vars, nam_vars>>

FltNext ==
    \/ ExactMarker
    \/ OnlyMarkers
    \/ KeepText

(***************************************************************************)
(* parse_vtt_timestamp: one call                                           *)
(***************************************************************************)
\* a field of 310 digits
ManyDigits == [k \in 1..310 |-> "9"]

\* the hours, minutes and seconds the timestamps of the inputs are made of
SampleHours == {<<"0", "0">>, <<"0", "1">>, <<"0", "2">>, <<"1">>, <<" ", "1">>, <<"-", "1">>, <<"x">>, <<>>, ManyDigits}

SampleMinutes == {<<"0", "0">>, <<"0", "1">>, <<"0", "2">>, <<"5", "9">>, <<"-", "1">>, <<"x">>}

SampleSeconds ==
    {<<"0", "0", ".", "0", "0", "0">>, <<"3", "0", ".", "5", "0", "0">>, <<"0", "1", ".", "5", "0", "4">>, <<"0", "4", ".", "0", "0", "4">>, <<"2", "4", ".", "9", "0", "8">>, <<"5", "9", ".", "9", "9", "9">>, <<"5">>, <<"-", "5">>, <<"n", "a", "n">>,
     <<"i", "n", "f">>, <<"x">>}

\* the arguments of the calls: three fields, or another number of fields
SampleTimestamps ==
    {h \o <<":">> \o m \o <<":">> \o sec :
         h \in SampleHours, m \in SampleMinutes, sec \in SampleSeconds}
        \cup {<<>>, <<"i", "n", "v", "a", "l", "i", "d">>, <<"0", "0", ":", "0", "0">>, <<"0", "0", ":", "0", "0", ":", "0", "0", ":", "0", "0", ".", "0", "0", "0">>}

TsStart ==
    /\ timestamp_arg \in SampleTimestamps
    /\ timestamp_result = None
    /\ ts_pc = "call"

\* if not timestamp: return None
TimestampEmpty ==
    /\ ts_pc = "call"
    /\ timestamp_arg = <<>>
    /\ timestamp_result' = None
    /\ ts_pc' = "returned"
    /\ UNCHANGED timestamp_arg
    /\ UNCHANGED <<seg_vars, con_vars, dir_vars, sel_vars, flt_vars, cap_vars, lim_vars,
                   run_vars, dl_vars, fmt_vars, nam_vars>>

\* if len(parts) != 3: return None
TimestampFieldCount ==
    /\ ts_pc = "call"
    /\ timestamp_arg # <<>>
    /\ Len(Split(timestamp_arg, ":")) # 3
    /\ timestamp_result' = TryBlock(timestamp_arg).value
    /\ ts_pc' = "returned"
    /\ UNCHANGED timestamp_arg
    /\ UNCHANGED <<seg_vars, con_vars, dir_vars, sel_vars, flt_vars, cap_vars, lim_vars,
                   run_vars, dl_vars, fmt_vars, nam_vars>>

\* except (ValueError, IndexError): return None
TimestampValueError ==
    /\ ts_pc = "call"
    /\ timestamp_arg # <<>>
    /\ TryBlock(timestamp_arg).outcome = "ValueError"
    /\ timestamp_result' = None
    /\ ts_pc' = "returned"
    /\ UNCHANGED timestamp_arg
    /\ UNCHANGED <<seg_vars, con_vars, dir_vars, sel_vars, flt_vars, cap_vars, lim_vars,
                   run_vars, dl_vars, fmt_vars, nam_vars>>

\* return hours * 3600 + minutes * 60 + seconds
TimestampSeconds ==
    /\ ts_pc = "call"
    /\ timestamp_arg # <<>>
    /\ Len(Split(timestamp_arg, ":")) = 3
    /\ TryBlock(timestamp_arg).outcome = "return"
    /\ timestamp_result' = TryBlock(timestamp_arg).value
    /\ ts_pc' = "returned"
    /\ UNCHANGED timestamp_arg
    /\ UNCHANGED <<seg_vars, con_vars, dir_vars, sel_vars, flt_vars, cap_vars, lim_vars,
                   run_vars, dl_vars, fmt_vars, nam_vars>>

\* the sum raises OverflowError, which no except clause catches
TimestampOverflowError ==
    /\ ts_pc = "call"
    /\ timestamp_arg # <<>>
    /\ TryBlock(timestamp_arg).outcome = "OverflowError"
    /\ ts_pc' = "raised"
    /\ UNCHANGED <<timestamp_arg, timestamp_result>>
    /\ UNCHANGED <<seg_vars, con_vars, dir_vars, sel_vars, flt_vars, cap_vars, lim_vars,
                   run_vars, dl_vars, fmt_vars, nam_vars>>

TsNext ==
    \/ TimestampEmpty
    \/ TimestampFieldCount
    \/ TimestampValueError
    \/ TimestampSeconds
    \/ TimestampOverflowError

(***************************************************************************)
(* capitalize_sentences: one call                                          *)
(***************************************************************************)
\* the characters the texts of the inputs are made of
SampleChars == {"a", "B", "1", " ", ".", "?", "!", "ß", "ⓐ"}

\* every text of at most n characters
RECURSIVE Texts(_)
Texts(n) ==
    IF n = 0 THEN {<<>>}
    ELSE Texts(n - 1) \cup {Append(t, c) : t \in {u \in Texts(n - 1) : Len(u) = n - 1},
                                          c \in SampleChars}

CapStart ==
    /\ cap_arg \in Texts(MaxText)
    /\ cap_result = <<>>
    /\ cap_pc = "call"

\* if not text: return text
CapitalizeEmpty ==
    /\ cap_pc = "call"
    /\ cap_arg = <<>>
    /\ cap_result' = cap_arg
    /\ cap_pc' = "returned"
    /\ UNCHANGED cap_arg
    /\ UNCHANGED <<seg_vars, con_vars, dir_vars, sel_vars, flt_vars, ts_vars, lim_vars,
                   run_vars, dl_vars, fmt_vars, nam_vars>>

\* the first character, the loop and the join
Capitalize ==
    /\ cap_pc = "call"
    /\ cap_arg # <<>>
    /\ cap_result' = capitalize_sentences(cap_arg)
    /\ cap_pc' = "returned"
    /\ UNCHANGED cap_arg
    /\ UNCHANGED <<seg_vars, con_vars, dir_vars, sel_vars, flt_vars, ts_vars, lim_vars,
                   run_vars, dl_vars, fmt_vars, nam_vars>>

CapNext ==
    \/ CapitalizeEmpty
    \/ Capitalize

(***************************************************************************)
(* AdaptiveRateLimiter.  The sleep times are Python floats: the values     *)
(* below are a number of half seconds, or a few units of 2^-60 s, which    *)
(* is 500 * ErrUnit.                                                       *)
(***************************************************************************)
\* x * 2, exact in binary64
Twice(x) == Float(2 * x.ms, 2 * x.err)

\* x < y
FloatLess(x, y) == x.ms < y.ms \/ (x.ms = y.ms /\ x.err < y.err)

\* min(x, y) and max(x, y) of Python: the first argument unless the second is
\* strictly smaller, or strictly larger
FloatMin(x, y) == IF FloatLess(y, x) THEN y ELSE x

FloatMax(x, y) == IF FloatLess(x, y) THEN y ELSE x

\* x - y: the exact difference rounded to the nearest float.  A difference of
\* at least half a second has floats 2^-54 s or more apart around it, so what
\* it has beyond the half seconds, less than 2^-55 s = 16000 * ErrUnit, is
\* rounded away; a difference below that is a multiple of 2^-60 s and exact.
FloatSub(x, y) ==
    LET dm == x.ms - y.ms
        de == x.err - y.err
    IN  IF dm # 0 /\ dm % 500 = 0 /\ de < 16000 /\ 0 - de < 16000
        THEN Float(dm, 0)
        ELSE Float(dm, de)

\* the sleep time a rate limit that ignores max_sleep would give
BackoffUncapped(sleep, limit) == Twice(sleep)

\* min(self.current_sleep * 2, self.max_sleep)
Backoff(sleep, limit) == FloatMin(Twice(sleep), limit)

\* a hold that is one request short
InBackoffOneShort(requests) == requests > 1

\* if self.backoff_requests > 0
InBackoff(requests) == requests > 0

\* a decay that does not stop at base_sleep
DecayedBelowBase(sleep, base, rate) == FloatSub(sleep, rate)

\* max(self.base_sleep, self.current_sleep - self.decay_rate)
Decayed(sleep, base, rate) == FloatMax(base, FloatSub(sleep, rate))

\* the arguments of the constructor: 1.0 and 2.0 (the default) for base_sleep,
\* 1.5, 10.0 and 30.0 (the default) for max_sleep, 0.5 (the default), 1.5,
\* 2^-60 and 0.0 for decay_rate
SampleBaseSleeps == {Float(1000, 0), Float(2000, 0)}

SampleMaxSleeps == {Float(1500, 0), Float(10000, 0), Float(30000, 0)}

SampleDecayRates == {Float(500, 0), Float(1500, 0), Float(0, 500), Float(0, 0)}

\* AdaptiveRateLimiter(base_sleep, max_sleep, backoff_count, decay_rate)
LimStart ==
    /\ base_sleep \in SampleBaseSleeps
    /\ max_sleep \in SampleMaxSleeps
    /\ backoff_count \in 0..MaxBackoff
    /\ decay_rate \in SampleDecayRates
    /\ current_sleep = base_sleep
    /\ backoff_requests = 0
    /\ lim_pc = "constructed"
    /\ rate_limits = 0
    /\ successes_since = 0 - 1
    /\ sleep_time = None

\* the statements of on_rate_limit
OnRateLimit ==
    /\ current_sleep' = Backoff(current_sleep, max_sleep)
    /\ backoff_requests' = backoff_count
    /\ lim_pc' = "on_rate_limit"
    /\ rate_limits' = rate_limits + 1
    /\ successes_since' = 0
    /\ UNCHANGED <<base_sleep, max_sleep, backoff_count, decay_rate, sleep_time>>

\* the statements of on_success
OnSuccess ==
    /\ IF InBackoff(backoff_requests)
       THEN /\ backoff_requests' = backoff_requests - 1
            /\ UNCHANGED current_sleep
       ELSE /\ current_sleep' = Decayed(current_sleep, base_sleep, decay_rate)
            /\ UNCHANGED backoff_requests
    /\ lim_pc' = "on_success"
    \* the calls since the last on_rate_limit, counted up to backoff_count + 1
    /\ successes_since' =
           IF successes_since < 0 \/ successes_since > backoff_count
           THEN successes_since
           ELSE successes_since + 1
    /\ UNCHANGED <<base_sleep, max_sleep, backoff_count, decay_rate, rate_limits,
                   sleep_time>>

on_rate_limit ==
    /\ lim_pc # "idle"
    /\ rate_limits < MaxRateLimits
    /\ OnRateLimit
    /\ UNCHANGED <<seg_vars, con_vars, dir_vars, sel_vars, flt_vars, ts_vars, cap_vars,
                   run_vars, dl_vars, fmt_vars, nam_vars>>

on_success ==
    /\ lim_pc # "idle"
    /\ OnSuccess
    /\ UNCHANGED <<seg_vars, con_vars, dir_vars, sel_vars, flt_vars, ts_vars, cap_vars,
                   run_vars, dl_vars, fmt_vars, nam_vars>>

\* return self.current_sleep
get_sleep_time ==
    /\ lim_pc # "idle"
    /\ sleep_time' = current_sleep
    /\ lim_pc' = "get_sleep_time"
    /\ UNCHANGED <<base_sleep, max_sleep, backoff_count, decay_rate, current_sleep,
                   backoff_requests, rate_limits, successes_since>>
    /\ UNCHANGED <<seg_vars, con_vars, dir_vars, sel_vars, flt_vars, ts_vars, cap_vars,
                   run_vars, dl_vars, fmt_vars, nam_vars>>

LimNext ==
    \/ on_rate_limit
    \/ on_success
    \/ get_sleep_time

(***************************************************************************)
(* Downloader.  The retrieval is yt_dlp, which is not part of the          *)
(* repository: a call of it returns, raises DownloadError with a message,  *)
(* or raises something else.                                               *)
(***************************************************************************)
\* re.match of ^https?://(www\.|m\.)?(youtube\.com|youtu\.be)/.*$ with
\* IGNORECASE: "." stops at a line feed, "$" stands at the end or before a
\* line feed that ends the string
is_valid_youtube_url(url) ==
    LET l == Lower(url)
        ok(rest) == \A k \in 1..(Len(rest) - 1) : rest[k] # "\n"
    IN  \E scheme \in {<<"h", "t", "t", "p", ":", "/", "/">>, <<"h", "t", "t", "p", "s", ":", "/", "/">>},
           prefix \in {<<>>, <<"w", "w", "w", ".">>, <<"m", ".">>},
           host \in {<<"y", "o", "u", "t", "u", "b", "e", ".", "c", "o", "m">>, <<"y", "o", "u", "t", "u", ".", "b", "e">>} :
            LET head == scheme \o prefix \o host \o <<"/">>
            IN  /\ StartsWith(l, head)
                /\ ok(SubSeq(l, Len(head) + 1, Len(l)))

\* '429' in str(e) or 'Too Many Requests' in str(e)
IsRateLimitText(message) ==
    Contains(message, <<"4", "2", "9">>) \/ Contains(message, <<"T", "o", "o", " ", "M", "a", "n", "y", " ", "R", "e", "q", "u", "e", "s", "t", "s">>)

\* the urls of the calls
SampleUrls ==
    {<<"h", "t", "t", "p", "s", ":", "/", "/", "y", "o", "u", "t", "u", ".", "b", "e", "/", "x">>, <<"h", "t", "t", "p", ":", "/", "/", "m", ".", "y", "o", "u", "t", "u", "b", "e", ".", "c", "o", "m", "/">>, <<"H", "T", "T", "P", "S", ":", "/", "/", "W", "W", "W", ".", "Y", "o", "u", "T", "u", "b", "e", ".", "c", "o", "m", "/", "c">>,
     <<"h", "t", "t", "p", "s", ":", "/", "/", "y", "o", "u", "t", "u", "b", "e", ".", "c", "o", "m">>, <<"h", "t", "t", "p", "s", ":", "/", "/", "v", "i", "m", "e", "o", ".", "c", "o", "m", "/", "1">>, <<"f", "t", "p", ":", "/", "/", "y", "o", "u", "t", "u", "b", "e", ".", "c", "o", "m", "/", "x">>,
     <<"h", "t", "t", "p", "s", ":", "/", "/", "y", "o", "u", "t", "u", ".", "b", "e", "/", "a">> \o <<"\n">> \o <<"b">>, <<>>}

\* the messages of the DownloadError the retrieval raises: two rate-limiting
\* responses, a target that is not found, a host that is not reached
SampleMessages ==
    {<<"H", "T", "T", "P", " ", "E", "r", "r", "o", "r", " ", "4", "2", "9", ":", " ", "T", "o", "o", " ", "M", "a", "n", "y", " ", "R", "e", "q", "u", "e", "s", "t", "s">>, <<"T", "o", "o", " ", "M", "a", "n", "y", " ", "R", "e", "q", "u", "e", "s", "t", "s">>,
     <<"H", "T", "T", "P", " ", "E", "r", "r", "o", "r", " ", "4", "0", "4", ":", " ", "N", "o", "t", " ", "F", "o", "u", "n", "d">>, <<"u", "r", "l", "o", "p", "e", "n", " ", "e", "r", "r", "o", "r">>}

NoOutcome == [method |-> "none", kind |-> "none", message |-> <<>>]

NoStats == [downloaded |-> 0, skipped |-> 0, errors |-> 0]

\* Downloader(output_dir, rate_limiter=AdaptiveRateLimiter(...))
DlStart ==
    /\ dl_url = <<>>
    /\ dl_outcome = NoOutcome
    /\ dl_stats = NoStats
    /\ dl_trace = <<>>
    /\ dl_calls = 0
    /\ dl_pc = "ready"

\* a call of download or get_channel_info begins
Called(url) ==
    /\ dl_pc \in {"ready", "returned", "raised"}
    /\ dl_calls < MaxCalls
    /\ dl_url' = url
    /\ dl_calls' = dl_calls + 1

\* download: raise ValueError(f"Invalid YouTube URL: {url}")
DownloadInvalidUrl ==
    \E url \in SampleUrls :
        /\ Called(url)
        /\ ~is_valid_youtube_url(url)
        /\ dl_outcome' = [method |-> "download", kind |-> "ValueError", message |-> <<>>]
        /\ dl_stats' = NoStats
        /\ dl_trace' = <<>>
        /\ dl_pc' = "raised"
        /\ UNCHANGED lim_vars
        /\ UNCHANGED <<seg_vars, con_vars, dir_vars, sel_vars, flt_vars, ts_vars, cap_vars,
                       run_vars, fmt_vars, nam_vars>>

\* download: ydl.download returns; on_success, wait, return stats
DownloadReturns ==
    \E url \in SampleUrls :
        /\ Called(url)
        /\ is_valid_youtube_url(url)
        /\ dl_outcome' = [method |-> "download", kind |-> "returned", message |-> <<>>]
        /\ dl_stats' = [NoStats EXCEPT !.downloaded = @ + 1]
        /\ OnSuccess
        /\ dl_trace' = <<"download", "on_success", "wait">>
        /\ dl_pc' = "returned"
        /\ UNCHANGED <<seg_vars, con_vars, dir_vars, sel_vars, flt_vars, ts_vars, cap_vars,
                       run_vars, fmt_vars, nam_vars>>

\* download: except DownloadError with a rate-limit text; on_rate_limit, the
\* error counted, wait, return stats
DownloadRateLimited ==
    \E url \in SampleUrls, message \in SampleMessages :
        /\ Called(url)
        /\ is_valid_youtube_url(url)
        /\ IsRateLimitText(message)
        /\ rate_limits < MaxRateLimits
        /\ dl_outcome' = [method |-> "download", kind |-> "DownloadError",
                          message |-> message]
        /\ OnRateLimit
        /\ dl_stats' = [NoStats EXCEPT !.errors = @ + 1]
        /\ dl_trace' = <<"download", "on_rate_limit", "wait">>
        /\ dl_pc' = "returned"
        /\ UNCHANGED <<seg_vars, con_vars, dir_vars, sel_vars, flt_vars, ts_vars, cap_vars,
                       run_vars, fmt_vars, nam_vars>>

\* download: except DownloadError with another text; the error counted, wait,
\* return stats
DownloadFails ==
    \E url \in SampleUrls, message \in SampleMessages :
        /\ Called(url)
        /\ is_valid_youtube_url(url)
        /\ ~IsRateLimitText(message)
        /\ dl_outcome' = [method |-> "download", kind |-> "DownloadError",
                          message |-> message]
        /\ dl_stats' = [NoStats EXCEPT !.errors = @ + 1]
        /\ dl_trace' = <<"download", "wait">>
        /\ dl_pc' = "returned"
        /\ UNCHANGED lim_vars
        /\ UNCHANGED <<seg_vars, con_vars, dir_vars, sel_vars, flt_vars, ts_vars, cap_vars,
                       run_vars, fmt_vars, nam_vars>>

\* download: ydl.download raises what the except clause does not name
DownloadRaises ==
    \E url \in SampleUrls :
        /\ Called(url)
        /\ is_valid_youtube_url(url)
        /\ dl_outcome' = [method |-> "download", kind |-> "Exception", message |-> <<>>]
        /\ dl_stats' = NoStats
        /\ dl_trace' = <<"download">>
        /\ dl_pc' = "raised"
        /\ UNCHANGED lim_vars
        /\ UNCHANGED <<seg_vars, con_vars, dir_vars, sel_vars, flt_vars, ts_vars, cap_vars,
                       run_vars, fmt_vars, nam_vars>>

\* get_channel_info: raise ValueError(f"Invalid YouTube URL: {url}")
ChannelInfoInvalidUrl ==
    \E url \in SampleUrls :
        /\ Called(url)
        /\ ~is_valid_youtube_url(url)
        /\ dl_outcome' = [method |-> "get_channel_info", kind |-> "ValueError",
                          message |-> <<>>]
        /\ dl_stats' = NoStats
        /\ dl_trace' = <<>>
        /\ dl_pc' = "raised"
        /\ UNCHANGED lim_vars
        /\ UNCHANGED <<seg_vars, con_vars, dir_vars, sel_vars, flt_vars, ts_vars, cap_vars,
                       run_vars, fmt_vars, nam_vars>>

\* get_channel_info: extract_info returns and the dict is built
ChannelInfoReturns ==
    \E url \in SampleUrls :
        /\ Called(url)
        /\ is_valid_youtube_url(url)
        /\ dl_outcome' = [method |-> "get_channel_info", kind |-> "returned",
                          message |-> <<>>]
        /\ dl_stats' = NoStats
        /\ dl_trace' = <<"extract_info">>
        /\ dl_pc' = "returned"
        /\ UNCHANGED lim_vars
        /\ UNCHANGED <<seg_vars, con_vars, dir_vars, sel_vars, flt_vars, ts_vars, cap_vars,
                       run_vars, fmt_vars, nam_vars>>

\* get_channel_info: extract_info raises DownloadError, which nothing catches
ChannelInfoRaises ==
    \E url \in SampleUrls, message \in SampleMessages :
        /\ Called(url)
        /\ is_valid_youtube_url(url)
        /\ dl_outcome' = [method |-> "get_channel_info", kind |-> "DownloadError",
                          message |-> message]
        /\ dl_stats' = NoStats
        /\ dl_trace' = <<"extract_info">>
        /\ dl_pc' = "raised"
        /\ UNCHANGED lim_vars
        /\ UNCHANGED <<seg_vars, con_vars, dir_vars, sel_vars, flt_vars, ts_vars, cap_vars,
                       run_vars, fmt_vars, nam_vars>>

DlNext ==
    \/ DownloadInvalidUrl
    \/ DownloadReturns
    \/ DownloadRateLimited
    \/ DownloadFails
    \/ DownloadRaises
    \/ ChannelInfoInvalidUrl
    \/ ChannelInfoReturns
    \/ ChannelInfoRaises

(***************************************************************************)
(* create_markdown_output, and the document read back by the consolidator  *)
(***************************************************************************)
\* if channel: None and '' are both false
IsTruthy(channel) == ~channel.isNone /\ channel.text # <<>>

\* '\n'.join(lines), where head is the list before the insert
create_markdown_output(content, name, language, source_file, channel) ==
    LET head == <<<<"#", " ">> \o name,
                   <<"*", "*", "I", "d", "i", "o", "m", "a", ":", "*", "*", " ">> \o language,
                   <<"*", "*", "F", "u", "e", "n", "t", "e", ":", "*", "*", " ">> \o source_file>>
        \* lines.insert(2, f"**Canal:** {channel}")
        inserted == IF IsTruthy(channel)
                    THEN <<head[1], head[2], <<"*", "*", "C", "a", "n", "a", "l", ":", "*", "*", " ">> \o channel.text, head[3]>>
                    ELSE head
    IN  Join(inserted \o <<<<"-", "-", "-">> \o <<"\n">>, content>>, <<"\n">>)

\* the base names: of a caption file "v.en.vtt", of videos whose titles begin
\* with a hash tag or a number sign, end in a space, or hold a line feed
SampleBaseNames ==
    {<<"v">>, <<"a", " ", "b">>, <<"#", "1">>, <<"#", " ", "v">>, <<" ", "v">>, <<"v", " ">>, <<"v", "#">>, <<"a">> \o <<"\n">> \o <<"b">>, <<>>}

SampleContents == {<<"x">>, <<"#", " ", "t">>, <<>>}

SampleFormatChannels ==
    {[isNone |-> TRUE, text |-> <<>>], [isNone |-> FALSE, text |-> <<>>],
     [isNone |-> FALSE, text |-> <<"C">>]}

NoFormatArgs ==
    [content |-> <<>>, base_name |-> <<>>, language |-> <<>>, source_file |-> <<>>,
     channel |-> [isNone |-> TRUE, text |-> <<>>]]

\* the arguments of one call of create_markdown_output
FmtStart ==
    /\ \E content \in SampleContents, name \in SampleBaseNames,
          language \in {<<"E", "N">>, <<"E", "S">>}, channel \in SampleFormatChannels :
           fmt_args = [content |-> content, base_name |-> name,
                       language |-> language,
                       source_file |-> name \o <<".", "v", "t", "t">>,
                       channel |-> channel]
    /\ fmt_document = <<>>
    /\ fmt_valid = FALSE
    /\ fmt_title = <<>>
    /\ fmt_pc = "args"

\* create_markdown_output called with a channel, as the callback and
\* process_directory do
FormatWithChannel ==
    /\ fmt_pc = "args"
    /\ IsTruthy(fmt_args.channel)
    /\ fmt_document' = create_markdown_output(fmt_args.content, fmt_args.base_name,
                                              fmt_args.language, fmt_args.source_file,
                                              fmt_args.channel)
    /\ fmt_pc' = "written"
    /\ UNCHANGED <<fmt_args, fmt_valid, fmt_title>>
    /\ UNCHANGED <<seg_vars, con_vars, dir_vars, sel_vars, flt_vars, ts_vars, cap_vars,
                   lim_vars, run_vars, dl_vars, nam_vars>>

\* create_markdown_output called without one
FormatWithoutChannel ==
    /\ fmt_pc = "args"
    /\ ~IsTruthy(fmt_args.channel)
    /\ fmt_document' = create_markdown_output(fmt_args.content, fmt_args.base_name,
                                              fmt_args.language, fmt_args.source_file,
                                              fmt_args.channel)
    /\ fmt_pc' = "written"
    /\ UNCHANGED <<fmt_args, fmt_valid, fmt_title>>
    /\ UNCHANGED <<seg_vars, con_vars, dir_vars, sel_vars, flt_vars, ts_vars, cap_vars,
                   lim_vars, run_vars, dl_vars, nam_vars>>

\* consolidate_channel reads the document: validate_markdown_file, and for a
\* valid one extract_title for the index of the volume
ReadBack ==
    /\ fmt_pc = "written"
    /\ fmt_valid' = validate_markdown_file(fmt_document)
    /\ fmt_title' = IF validate_markdown_file(fmt_document)
                    THEN extract_title(fmt_document)
                    ELSE <<>>
    /\ fmt_pc' = "read"
    /\ UNCHANGED <<fmt_args, fmt_document>>
    /\ UNCHANGED <<seg_vars, con_vars, dir_vars, sel_vars, flt_vars, ts_vars, cap_vars,
                   lim_vars, run_vars, dl_vars, nam_vars>>

FmtNext ==
    \/ FormatWithChannel
    \/ FormatWithoutChannel
    \/ ReadBack

(***************************************************************************)
(* The names of the document of one caption file, as the download callback *)
(* and as process_single_file compute them                                 *)
(***************************************************************************)
\* the index of the last "." of p, 0 when there is none
LastDot(p) ==
    IF \E k \in DOMAIN p : p[k] = "."
    THEN CHOOSE k \in DOMAIN p : p[k] = "." /\ \A j \in (k + 1)..Len(p) : p[j] # "."
    ELSE 0

\* os.path.splitext(p)[0] of a name without directories: p up to its last
\* ".", unless nothing but "." stands before it
splitext(p) ==
    IF \E k \in 1..(LastDot(p) - 1) : p[k] # "."
    THEN SubSeq(p, 1, LastDot(p) - 1)
    ELSE p

\* get_file_info(filename): the pair (base_name, language)
get_file_info(filename) ==
    LET name == Lower(filename)
    IN  [base_name |-> splitext(splitext(filename)),
         language |-> IF Contains(name, <<".", "e", "n", ".">>) \/ Contains(name, <<"_", "e", "n", ".">>)
                      THEN <<"E", "N">>
                      ELSE <<"E", "S">>]

\* the names of caption files: a stem and what yt-dlp puts after it
SampleStems == {<<"v">>, <<"m", "y", ".", "v", "i", "d", "e", "o">>, <<"V", "_", "e", "n">>, <<"a", " ", "b">>, <<".", "h">>, <<"x", "_", "e", "s">>}

SampleSuffixes == {<<".", "v", "t", "t">>, <<".", "e", "n", ".", "v", "t", "t">>, <<".", "e", "s", ".", "v", "t", "t">>, <<".", "e", "n", "-", "U", "S", ".", "v", "t", "t">>, <<".", "e", "s", "-", "E", "S", ".", "v", "t", "t">>, <<".", "E", "N", ".", "V", "T", "T">>}

NoNames == [base_name |-> <<>>, language |-> <<>>, output |-> <<>>]

\* one caption file with text in it
NamStart ==
    /\ \E stem \in SampleStems, suffix \in SampleSuffixes : nam_filename = stem \o suffix
    /\ nam_callback = NoNames
    /\ nam_directory = NoNames
    /\ nam_pc = "file"

\* on_subtitle_downloaded(path) for cleaned text: get_file_info(path.name) and
\* get_output_filename
OnSubtitleDownloaded ==
    /\ nam_pc \in {"file", "directory"}
    /\ nam_callback' =
           [base_name |-> get_file_info(nam_filename).base_name,
            language |-> get_file_info(nam_filename).language,
            output |-> get_output_filename(get_file_info(nam_filename).base_name,
                                           get_file_info(nam_filename).language)]
    /\ nam_pc' = IF nam_pc = "file" THEN "callback" ELSE "both"
    /\ UNCHANGED <<nam_filename, nam_directory>>
    /\ UNCHANGED <<seg_vars, con_vars, dir_vars, sel_vars, flt_vars, ts_vars, cap_vars,
                   lim_vars, run_vars, dl_vars, fmt_vars>>

\* process_single_file on the same file when it is not skipped:
\* extract_base_name, get_language_from_filename, f"{base_name} [{language}].md"
ProcessSingleFile ==
    /\ nam_pc \in {"file", "callback"}
    /\ nam_directory' =
           [base_name |-> extract_base_name(nam_filename),
            language |-> get_language_from_filename(nam_filename),
            output |-> extract_base_name(nam_filename) \o <<" ", "[">>
                           \o get_language_from_filename(nam_filename) \o <<"]", ".", "m", "d">>]
    /\ nam_pc' = IF nam_pc = "file" THEN "directory" ELSE "both"
    /\ UNCHANGED <<nam_filename, nam_callback>>
    /\ UNCHANGED <<seg_vars, con_vars, dir_vars, sel_vars, flt_vars, ts_vars, cap_vars,
                   lim_vars, run_vars, dl_vars, fmt_vars>>

NamNext ==
    \/ OnSubtitleDownloaded
    \/ ProcessSingleFile

(***************************************************************************)
(* The components below, before they are called.                           *)
(***************************************************************************)
FltIdle ==
    /\ text_line = <<>>
    /\ kept_text = <<>>
    /\ flt_pc = "idle"

TsIdle ==
    /\ timestamp_arg = <<>>
    /\ timestamp_result = None
    /\ ts_pc = "idle"

CapIdle ==
    /\ cap_arg = <<>>
    /\ cap_result = <<>>
    /\ cap_pc = "idle"

LimIdle ==
    /\ base_sleep = 0
    /\ max_sleep = 0
    /\ backoff_count = 0
    /\ decay_rate = 0
    /\ current_sleep = 0
    /\ backoff_requests = 0
    /\ lim_pc = "idle"
    /\ rate_limits = 0
    /\ successes_since = 0 - 1
    /\ sleep_time = None

RunIdle == run_number = 0

DlIdle ==
    /\ dl_url = <<>>
    /\ dl_outcome = NoOutcome
    /\ dl_stats = NoStats
    /\ dl_trace = <<>>
    /\ dl_calls = 0
    /\ dl_pc = "idle"

FmtIdle ==
    /\ fmt_args = NoFormatArgs
    /\ fmt_document = <<>>
    /\ fmt_valid = FALSE
    /\ fmt_title = <<>>
    /\ fmt_pc = "idle"

NamIdle ==
    /\ nam_filename = <<>>
    /\ nam_callback = NoNames
    /\ nam_directory = NoNames
    /\ nam_pc = "idle"

(***************************************************************************)
(* Specifications: one per entry point.                                    *)
(***************************************************************************)
SegInit ==
    ConIdle /\ DirIdle /\ SelIdle /\ FltIdle /\ TsIdle /\ CapIdle /\ LimIdle /\
        RunIdle /\ DlIdle /\ FmtIdle /\ NamIdle /\ SegStart

ConInit ==
    SegIdle /\ DirIdle /\ SelIdle /\ FltIdle /\ TsIdle /\ CapIdle /\ LimIdle /\
        RunIdle /\ DlIdle /\ FmtIdle /\ NamIdle /\ ConStart

DirInit ==
    SegIdle /\ ConIdle /\ SelIdle /\ FltIdle /\ TsIdle /\ CapIdle /\ LimIdle /\
        RunIdle /\ DlIdle /\ FmtIdle /\ NamIdle /\ DirStart

SelInit ==
    SegIdle /\ ConIdle /\ DirIdle /\ FltIdle /\ TsIdle /\ CapIdle /\ LimIdle /\
        RunIdle /\ DlIdle /\ FmtIdle /\ NamIdle /\ SelStart

FltInit ==
    SegIdle /\ ConIdle /\ DirIdle /\ SelIdle /\ TsIdle /\ CapIdle /\ LimIdle /\
        RunIdle /\ DlIdle /\ FmtIdle /\ NamIdle /\ FltStart

TsInit ==
    SegIdle /\ ConIdle /\ DirIdle /\ SelIdle /\ FltIdle /\ CapIdle /\ LimIdle /\
        RunIdle /\ DlIdle /\ FmtIdle /\ NamIdle /\ TsStart

CapInit ==
    SegIdle /\ ConIdle /\ DirIdle /\ SelIdle /\ FltIdle /\ TsIdle /\ LimIdle /\
        RunIdle /\ DlIdle /\ FmtIdle /\ NamIdle /\ CapStart

LimInit ==
    SegIdle /\ ConIdle /\ DirIdle /\ SelIdle /\ FltIdle /\ TsIdle /\ CapIdle /\
        RunIdle /\ DlIdle /\ FmtIdle /\ NamIdle /\ LimStart

RerunInit ==
    SegIdle /\ DirIdle /\ SelIdle /\ FltIdle /\ TsIdle /\ CapIdle /\ LimIdle /\
        DlIdle /\ FmtIdle /\ NamIdle /\ ConStart /\ RunStart

DlInit ==
    SegIdle /\ ConIdle /\ DirIdle /\ SelIdle /\ FltIdle /\ TsIdle /\ CapIdle /\
        RunIdle /\ FmtIdle /\ NamIdle /\ LimStart /\ DlStart

FmtInit ==
    SegIdle /\ ConIdle /\ DirIdle /\ SelIdle /\ FltIdle /\ TsIdle /\ CapIdle /\
        LimIdle /\ RunIdle /\ DlIdle /\ NamIdle /\ FmtStart

NamInit ==
    SegIdle /\ ConIdle /\ DirIdle /\ SelIdle /\ FltIdle /\ TsIdle /\ CapIdle /\
        LimIdle /\ RunIdle /\ DlIdle /\ FmtIdle /\ NamStart

SpecClean == SegInit /\ [][SegNext]_vars

SpecConsolidate == ConInit /\ [][ConNext]_vars

SpecDirectory == DirInit /\ [][DirNext]_vars

SpecSelect == SelInit /\ [][SelNext]_vars

SpecFilter == FltInit /\ [][FltNext]_vars

SpecTimestamp == TsInit /\ [][TsNext]_vars

SpecCapitalize == CapInit /\ [][CapNext]_vars

SpecLimiter == LimInit /\ [][LimNext]_vars

\* the limiter when requests keep succeeding: the downloader calls on_success
\* after every request that is answered, and on_rate_limit only MaxRateLimits
\* times
SpecLimiterFair == LimInit /\ [][LimNext]_vars /\ WF_vars(on_success)

SpecRerun == RerunInit /\ [][RerunNext]_vars

SpecDownload == DlInit /\ [][DlNext]_vars

SpecFormat == FmtInit /\ [][FmtNext]_vars

SpecNames == NamInit /\ [][NamNext]_vars

(***************************************************************************)
(* Properties of clean_vtt_content (SpecClean)                             *)
(***************************************************************************)
\* the lines kept so far in paragraph p, closed or still in progress
ParagraphLines(p) ==
    IF p <= Len(blocks) THEN blocks[p].text ELSE current_block_text

\* paragraph p of the returned text: the paragraphs are joined by "\n\n"
OutputParagraph(p) ==
    LET pieces == Split(final_text, "\n")
    IN  IF 2 * p - 1 <= Len(pieces) THEN pieces[2 * p - 1] ELSE <<>>

Occurrences(s, t) == Cardinality({k \in 1..Len(s) : MatchAt(s, k, t)})

\* cue-timing lines a < b with no cue-timing line between them
ConsecutiveCues(a, b) ==
    /\ a > 0
    /\ a < b
    /\ \A k \in (a + 1)..(b - 1) : LineTable[lines[k]].branch # "timestamp"

\* the pause between cue a and cue b in milliseconds, as the captions give it
GapMillis(a, b) == LineTable[lines[b]].start_time.ms - LineTable[lines[a]].end_time.ms

\* C1: for two consecutive cues that each contribute a kept text line, a pause
\* of at least the threshold puts a paragraph break between their texts in the
\* returned text, and a shorter pause leaves their texts in one paragraph.
ParagraphBoundaryLaw ==
    seg_pc = "done" =>
        \A x, y \in 1..Len(fed) :
            (fed[x].kept /\ fed[y].kept /\ ConsecutiveCues(fed[x].cue, fed[y].cue)) =>
                IF GapMillis(fed[x].cue, fed[y].cue) >= pause_threshold
                THEN /\ fed[x].para < fed[y].para
                     /\ Contains(Lower(OutputParagraph(fed[x].para)), Lower(fed[x].text))
                     /\ Contains(Lower(OutputParagraph(fed[y].para)), Lower(fed[y].text))
                ELSE /\ fed[x].para = fed[y].para
                     /\ Contains(Lower(OutputParagraph(fed[x].para)), Lower(fed[x].text))
                     /\ Contains(Lower(OutputParagraph(fed[x].para)), Lower(fed[y].text))

\* C2: a text line fed to a paragraph, however many times, is in that paragraph
\* exactly once, in the lines kept and in the returned text; the same line fed
\* after a paragraph break is kept again in the new paragraph.
DedupLaw ==
    \A x \in 1..Len(fed) :
        /\ Cardinality({k \in 1..Len(ParagraphLines(fed[x].para)) :
                            ParagraphLines(fed[x].para)[k] = fed[x].text}) = 1
        /\ fed[x].kept <=> \A w \in 1..(x - 1) :
                               fed[w].para = fed[x].para => fed[w].text # fed[x].text
        /\ seg_pc = "done" =>
               Occurrences(Lower(OutputParagraph(fed[x].para)), Lower(fed[x].text)) = 1

\* a line fed twice to one paragraph and once more after a break
DedupWitness ==
    /\ seg_pc = "done"
    /\ \E x, y, z \in 1..Len(fed) :
           /\ x < y /\ y < z
           /\ fed[x].text = fed[y].text /\ fed[y].text = fed[z].text
           /\ fed[x].para = fed[y].para /\ fed[x].kept /\ ~fed[y].kept
           /\ fed[z].para > fed[y].para /\ fed[z].kept
           /\ Occurrences(Lower(final_text), Lower(fed[x].text)) = 2

\* C16: clean_vtt_content returns the empty text for empty content, and it
\* never emits an empty paragraph: every paragraph closed holds a kept line,
\* the returned text has one paragraph per paragraph closed, joined by
\* "\n\n", with no line break anywhere else and no white space at its ends.
NoEmptyParagraph ==
    /\ \A p \in 1..Len(blocks) : blocks[p].text # <<>>
    /\ seg_pc = "done" =>
          /\ lines = <<>> => final_text = <<>>
          /\ blocks = <<>> <=> final_text = <<>>
          /\ final_text # <<>> =>
                /\ ~IsSpace(final_text[1])
                /\ ~IsSpace(final_text[Len(final_text)])
                /\ ~Contains(final_text, <<"\n", "\n", "\n">>)
                /\ Occurrences(final_text, <<"\n", "\n">>) = Len(blocks) - 1
                /\ Occurrences(final_text, <<"\n">>) = 2 * (Len(blocks) - 1)

\* a run in which a pause came while the paragraph held nothing but a
\* discarded annotation, and the text after it is the only paragraph
NoEmptyParagraphWitness ==
    /\ seg_pc = "done"
    /\ Len(lines) >= 4
    /\ \A k \in 5..Len(lines) : lines[k] = <<>>
    /\ lines[1] = CueLine(0, 1504)
    /\ lines[2] = <<"[", "M", "u", "s", "i", "c", "]">>
    /\ lines[3] = CueLine(7500, 60100)
    /\ lines[4] = <<"h", "i">>
    /\ Len(blocks) = 1
    /\ final_text = <<"H", "i">>

(***************************************************************************)
(* Properties of consolidate_channel and consolidate_all (SpecConsolidate) *)
(***************************************************************************)
\* the channels consolidated so far
Consolidated == DOMAIN manifest

\* the volume files of a consolidated channel, in the order of its manifest entry
VolumesOf(c) ==
    [k \in 1..Len(manifest[c].volumenes) |-> exports[manifest[c].volumenes[k]]]

PartsOfKind(volume, kind) == SelectSeq(volume.parts, LAMBDA part : part.kind = kind)

\* the least k with k * n >= m
CeilDiv(m, n) == CHOOSE k \in 0..m : k * n >= m /\ (k = 0 \/ (k - 1) * n < m)

Min(a, b) == IF a <= b THEN a ELSE b

\* the positions in the sorted collection of the files a volume has bodies of
BodyPositions(c, volume) ==
    {q \in 1..Len(md_files(c)) :
        \E j \in 1..Len(volume.parts) :
            volume.parts[j].kind = "body" /\ volume.parts[j].file = md_files(c)[q].name}

\* the positions in the sorted collection of the transcripts of a channel
ValidPositions(c) ==
    {q \in 1..Len(md_files(c)) :
        \E k \in DOMAIN biblioteca[c] :
            biblioteca[c][k] = "valid" /\ md_files(c)[q].name = Document(k, "valid").name}

\* C3: a channel of M documents consolidated with batch size N has ceil(M/N)
\* volumes, numbered 1..ceil(M/N) in order; volume k covers the positions
\* (k-1)*N+1 .. min(k*N, M), so every volume but the last covers N documents,
\* and a channel without documents has no volume.
VolumeCountLaw ==
    \A c \in Consolidated :
        LET M == Len(md_files(c))
            N == transcripts_per_volume
            names == manifest[c].volumenes
        IN  /\ Len(names) = CeilDiv(M, N)
            /\ \A n \in DOMAIN exports :
                   Head(n) = Head(c) => \E k \in 1..Len(names) : names[k] = n
            /\ \A k \in 1..Len(names) :
                   /\ names[k] \in DOMAIN exports
                   /\ names[k] = c \o <<"_", "V", "o", "l", "0">> \o Str(k)
                                   \o <<".", "t", "x", "t">>
                   /\ VolumesOf(c)[k].parts[1].kind = "header"
                   /\ VolumesOf(c)[k].parts[1].number = k
                   /\ VolumesOf(c)[k].of = CeilDiv(M, N)
                   /\ VolumesOf(c)[k].first = (k - 1) * N + 1
                   /\ VolumesOf(c)[k].last = Min(k * N, M)
                   /\ k < Len(names) =>
                          VolumesOf(c)[k].last - VolumesOf(c)[k].first + 1 = N
                   /\ BodyPositions(c, VolumesOf(c)[k]) =
                          ValidPositions(c) \cap ((k - 1) * N + 1)..Min(k * N, M)

\* a run that ended with a channel split into a full volume and a smaller last one
VolumeCountWitness ==
    /\ con_pc = "done"
    /\ \E c \in Consolidated :
           /\ Len(md_files(c)) = 3
           /\ transcripts_per_volume = 2
           /\ Len(manifest[c].volumenes) = 2
           /\ VolumesOf(c)[2].first = 3 /\ VolumesOf(c)[2].last = 3
    /\ \E c \in Consolidated : md_files(c) = <<>> /\ manifest[c].volumenes = <<>>

\* the numbers of the index lines of a channel, volume after volume
RECURSIVE IndexNumbers(_, _)
IndexNumbers(c, k) ==
    IF k > Len(manifest[c].volumenes) THEN <<>>
    ELSE LET index == PartsOfKind(VolumesOf(c)[k], "index")
         IN  [j \in 1..Len(index) |-> index[j].number] \o IndexNumbers(c, k + 1)

\* C4: the index lines of a channel, read volume after volume, are numbered
\* 1, 2, 3, ... without a gap, whether or not documents were skipped.
IndexNumberingContinuous ==
    \A c \in Consolidated :
        \A j \in 1..Len(IndexNumbers(c, 1)) : IndexNumbers(c, 1)[j] = j

\* C5: in every volume the separator stands only between two included bodies,
\* never after the last one: there is one separator fewer than bodies, or none.
SeparatorOnlyBetweenBodies ==
    \A c \in Consolidated :
        \A k \in 1..Len(manifest[c].volumenes) :
            LET parts == VolumesOf(c)[k].parts
                bodies == Len(PartsOfKind(VolumesOf(c)[k], "body"))
                separators == Len(PartsOfKind(VolumesOf(c)[k], "separator"))
            IN  /\ \A j \in 1..Len(parts) :
                       parts[j].kind = "separator" =>
                           /\ parts[j - 1].kind = "body"
                           /\ j < Len(parts)
                           /\ parts[j + 1].kind = "body"
                /\ separators = IF bodies = 0 THEN 0 ELSE bodies - 1

\* how many parts of a kind the volumes of a channel have from a file
RECURSIVE PartCount(_, _, _, _)
PartCount(c, k, kind, file) ==
    IF k > Len(manifest[c].volumenes) THEN 0
    ELSE Len(SelectSeq(VolumesOf(c)[k].parts,
                       LAMBDA part : part.kind = kind /\ part.file = file))
         + PartCount(c, k + 1, kind, file)

SkippedCount(c, file) ==
    Cardinality({j \in 1..Len(manifest[c].archivos_omitidos.names) :
                    manifest[c].archivos_omitidos.names[j] = file})

\* C6: after a channel is consolidated each of its documents is in exactly one
\* place: a transcript has one body and one index line, both in one volume, and
\* is not in the skipped list; any other document is once in the skipped list
\* and in no volume; and every volume of the channel is written.
SkippedAccounting ==
    \A c \in Consolidated :
        /\ Len(manifest[c].volumenes) = CeilDiv(Len(md_files(c)), transcripts_per_volume)
        /\ \A k \in DOMAIN biblioteca[c] :
               LET file == Document(k, biblioteca[c][k]).name
               IN  CASE biblioteca[c][k] = "absent" ->
                            /\ SkippedCount(c, file) = 0
                            /\ PartCount(c, 1, "body", file) = 0
                            /\ PartCount(c, 1, "index", file) = 0
                     [] biblioteca[c][k] = "valid" ->
                            /\ SkippedCount(c, file) = 0
                            /\ PartCount(c, 1, "body", file) = 1
                            /\ PartCount(c, 1, "index", file) = 1
                            /\ \E v \in 1..Len(manifest[c].volumenes) :
                                   /\ Len(SelectSeq(VolumesOf(c)[v].parts,
                                          LAMBDA part : part.file = file)) = 2
                     [] OTHER ->
                            /\ SkippedCount(c, file) = 1
                            /\ PartCount(c, 1, "body", file) = 0
                            /\ PartCount(c, 1, "index", file) = 0

\* a channel whose batch has an undecodable file and a file without heading
\* before a transcript
SkippedAccountingWitness ==
    \E c \in Consolidated :
        /\ DOMAIN biblioteca[c] = 1..3
        /\ biblioteca[c][1] = "unreadable"
        /\ biblioteca[c][2] = "invalid"
        /\ biblioteca[c][3] = "valid"
        /\ transcripts_per_volume = 3
        /\ Len(manifest[c].archivos_omitidos.names) = 2
        /\ PartCount(c, 1, "body", Document(3, "valid").name) = 1

\* C7 as stated: the total of a channel in manifest.json is the number of its
\* transcripts, the documents that pass the check and are in the volumes.
ManifestTotalIsValidCount ==
    manifest_file.exists =>
        \A c \in DOMAIN manifest_file.channels :
            manifest_file.channels[c].total_transcripciones =
                Cardinality(ValidPositions(c))

\* C7 amended: the total of a channel in manifest.json is the number of
\* markdown documents of the channel, those included and those skipped.
ManifestTotalIsDocumentCount ==
    manifest_file.exists =>
        \A c \in DOMAIN manifest_file.channels :
            /\ manifest_file.channels[c].total_transcripciones = Len(md_files(c))
            /\ manifest_file.channels[c].total_transcripciones =
                   Len(IndexNumbers(c, 1))
                       + Len(manifest_file.channels[c].archivos_omitidos.names)

\* a manifest written for a channel with a transcript and a skipped document
ManifestTotalWitness ==
    /\ manifest_file.exists
    /\ \E c \in DOMAIN manifest_file.channels :
           /\ manifest_file.channels[c].total_transcripciones = 2
           /\ Cardinality(ValidPositions(c)) = 1
           /\ Len(manifest_file.channels[c].archivos_omitidos.names) = 1

\* C15: every volume written holds the bodies of at least one and at most
\* transcripts_per_volume transcripts.
VolumeSizeBounds ==
    \A n \in DOMAIN exports :
        /\ Len(PartsOfKind(exports[n], "body")) >= 1
        /\ Len(PartsOfKind(exports[n], "body")) <= transcripts_per_volume

(***************************************************************************)
(* Properties of process_directory (SpecDirectory)                         *)
(***************************************************************************)
\* the caption files of a channel with a base, over all its folders
FilesOf(channel_name, base) ==
    {p \in DOMAIN tree_files :
        tree_dirs[p.dir] = channel_name /\ extract_base_name(p.name) = base}

\* a name with the suffix .en.vtt or .es.vtt, in either case
IsNonRegionalName(name) ==
    EndsWith(Lower(name), <<".", "e", "n", ".", "v", "t", "t">>) \/ EndsWith(Lower(name), <<".", "e", "s", ".", "v", "t", "t">>)

\* a name with the suffix .en-US.vtt or .es-ES.vtt, in either case
IsRegionalName(name) ==
    EndsWith(Lower(name), <<".", "e", "n", "-", "u", "s", ".", "v", "t", "t">>) \/ EndsWith(Lower(name), <<".", "e", "s", "-", "e", "s", ".", "v", "t", "t">>)

ChannelNames == {tree_dirs[d] : d \in DOMAIN tree_dirs}

BasesOf(channel_name) ==
    {extract_base_name(p.name) : p \in {f \in DOMAIN tree_files :
                                             tree_dirs[f.dir] = channel_name}}

\* the files of a channel a document under _biblioteca was written from
SourcesOf(channel_name) ==
    {outputs[o].source : o \in {w \in DOMAIN outputs : w[1] = channel_name}}

\* C8: for a channel and a base that have both a non-regional caption file
\* and a regional one, no document is written from the regional file.
RegionalNeverShadows ==
    \A channel_name \in ChannelNames :
        \A base \in BasesOf(channel_name) :
            ((\E p \in FilesOf(channel_name, base) : IsNonRegionalName(p.name))
             /\ (\E p \in FilesOf(channel_name, base) : IsRegionalName(p.name)))
            => \A p \in SourcesOf(channel_name) \cap FilesOf(channel_name, base) :
                   ~IsRegionalName(p.name)

\* the files of a channel with a base that process_single_file went on to
\* read and clean
Chosen(channel_name, base) ==
    {p \in FilesOf(channel_name, base) :
        \E k \in 1..Len(results) :
            /\ results[k].file = p
            /\ results[k].channel = channel_name
            /\ results[k].result \notin {"SKIPPED_DUPLICATE", "SKIPPED_REGIONAL"}}

\* C9: when process_directory returns, for every channel and base with a
\* caption file exactly one file was chosen for cleaning, every other file of
\* the base was skipped as a duplicate or as a regional variant, and a base
\* with only regional files had a regional file chosen.
ExactlyOneChosen ==
    dir_pc = "done" =>
        \A channel_name \in ChannelNames :
            \A base \in BasesOf(channel_name) :
                /\ Cardinality(Chosen(channel_name, base)) = 1
                /\ \A k \in 1..Len(results) :
                       (results[k].channel = channel_name
                        /\ results[k].file \in FilesOf(channel_name, base)
                        /\ results[k].file \notin Chosen(channel_name, base))
                       => results[k].result \in {"SKIPPED_DUPLICATE", "SKIPPED_REGIONAL"}
                /\ (\A p \in FilesOf(channel_name, base) : IsRegionalName(p.name))
                       => \A p \in Chosen(channel_name, base) : IsRegionalName(p.name)

\* the caption files of the tree, which the run collects
CaptionFiles == {p \in DOMAIN tree_files : NameTable[p.name].is_vtt}

Matching == {files[k] : k \in {j \in 1..Len(files) : StartsWith(files[j], base_name)}}

\* a name that ends in a dot, two letters and .vtt
HasTwoLetterSuffix(f) ==
    /\ Len(f) >= 7
    /\ EndsWith(Lower(f), <<".", "v", "t", "t">>)
    /\ LET code == SubSeq(f, Len(f) - 6, Len(f) - 4)
       IN  code[1] = "." /\ IsAlpha(code[2]) /\ IsAlpha(code[3])

\* C10 as stated: the call returns no-match exactly when no file matches the
\* base; a file of the base with a two-letter suffix whenever there is one;
\* otherwise a regional file of the base; and always a member of the list.
SelectionAsStated ==
    sel_pc = "returned" =>
        /\ selected.is_none <=> Matching = {}
        /\ ~selected.is_none => selected.name \in Matching
        /\ (\E f \in Matching : HasTwoLetterSuffix(f)) =>
               ~selected.is_none /\ HasTwoLetterSuffix(selected.name)
        /\ (Matching # {} /\ \A f \in Matching : ~HasTwoLetterSuffix(f)) =>
               ~selected.is_none /\ IsRegionalName(selected.name)

\* C10 amended: the call returns no-match exactly when no name of the list
\* starts with the base; the first name that starts with the base and has a
\* two-letter suffix whenever there is one; otherwise the first name that
\* starts with the base, whatever its suffix; and always a member of the list.
SelectionLaw ==
    sel_pc = "returned" =>
        /\ selected.is_none <=> Matching = {}
        /\ ~selected.is_none => selected.name \in Matching
        /\ (\E f \in Matching : HasTwoLetterSuffix(f)) =>
               /\ ~selected.is_none
               /\ HasTwoLetterSuffix(selected.name)
               /\ \E k \in 1..Len(files) :
                      /\ files[k] = selected.name
                      /\ \A j \in 1..(k - 1) :
                             ~(StartsWith(files[j], base_name)
                               /\ HasTwoLetterSuffix(files[j]))
        /\ (Matching # {} /\ \A f \in Matching : ~HasTwoLetterSuffix(f)) =>
               /\ ~selected.is_none
               /\ \E k \in 1..Len(files) :
                      /\ files[k] = selected.name
                      /\ \A j \in 1..(k - 1) : ~StartsWith(files[j], base_name)

\* a call whose list has a regional file of the base before one with a
\* two-letter suffix
SelectionWitness ==
    /\ sel_pc = "returned"
    /\ Len(files) >= 2
    /\ StartsWith(files[1], base_name)
    /\ IsRegionalName(files[1])
    /\ HasTwoLetterSuffix(selected.name)
    /\ selected.name # files[1]

(***************************************************************************)
(* Properties of the annotation filter (SpecFilter)                        *)
(***************************************************************************)
\* the text with every occurrence of every marker phrase removed in one pass
\* from left to right
RECURSIVE MarkersRemovedFrom(_, _)
MarkersRemovedFrom(s, k) ==
    IF k > Len(s) THEN <<>>
    ELSE IF \E m \in USELESS_MARKERS : MatchAt(s, k, m)
    THEN MarkersRemovedFrom(s, k + Len(CHOOSE m \in USELESS_MARKERS : MatchAt(s, k, m)))
    ELSE <<s[k]>> \o MarkersRemovedFrom(s, k + 1)

\* whether nothing but white space is left of the sanitized line once the
\* marker phrases are removed
OnlyMarkerPhrases(plain) == Strip(MarkersRemovedFrom(Lower(plain), 1)) = <<>>

\* C11: a text line is discarded by the annotation filter exactly when its
\* sanitized form in lower case is a marker phrase, or nothing is left of it
\* once every occurrence of every marker phrase is removed; a line that
\* keeps other text is appended with its sanitized text unchanged.
FilterAsStated ==
    flt_pc \in {"discarded", "kept"} =>
        LET plain == SanitizeLine(text_line)
            stated == Lower(plain) \in USELESS_MARKERS \/ OnlyMarkerPhrases(plain)
        IN  /\ (flt_pc = "discarded") <=> stated
            /\ flt_pc = "kept" => kept_text = plain

(***************************************************************************)
(* Properties of parse_vtt_timestamp (SpecTimestamp)                       *)
(***************************************************************************)
\* a field made of an optional sign, digits and decimal points
IsNumericField(field) ==
    LET u == Unsigned(Strip(field))
    IN  u # <<>> /\ \A k \in 1..Len(u) : IsDigit(u[k]) \/ u[k] = "."

\* the arguments for which the failure signal is stated
IsMalformed(timestamp) ==
    \/ timestamp = <<>>
    \/ Len(Split(timestamp, ":")) # 3
    \/ \E k \in 1..3 : ~IsNumericField(Split(timestamp, ":")[k])

\* C12: a call of parse_vtt_timestamp never raises; it returns None or a
\* number of seconds that is not negative, and it returns None when the
\* argument is empty, has other than three fields, or has a field that is
\* not numeric.
TimestampNeverRaises ==
    /\ ts_pc # "raised"
    /\ ts_pc = "returned" =>
          /\ \/ timestamp_result = None
             \/ timestamp_result.special = "no" /\ timestamp_result.ms >= 0
          /\ IsMalformed(timestamp_arg) => timestamp_result = None

\* HH:MM:SS.mmm: two digits, two digits, two digits and three digits
IsWellFormed(timestamp) == Len(timestamp) = 12 /\ IsTimestampAt(timestamp, 1)

\* hh * 3600000 + mm * 60000 + ss * 1000 + mmm, read off the digits
StatedMillis(timestamp) ==
    LET d(k) == DigitVal(timestamp[k])
    IN  (10 * d(1) + d(2)) * 3600000 + (10 * d(4) + d(5)) * 60000
            + (10 * d(7) + d(8)) * 1000 + 100 * d(10) + 10 * d(11) + d(12)

\* one unit in the last place of the float of n milliseconds, in ErrUnit
UnitInLastPlace(n) == 125 * Pow2(Binade(n) + 10)

\* C13: for every argument of the form HH:MM:SS.mmm the call returns the
\* float of hh * 3600 + mm * 60 + ss.mmm seconds: the number of
\* milliseconds is hh * 3600000 + mm * 60000 + ss * 1000 + mmm, and the
\* float differs from it by at most one unit in its last place.
TimestampValueLaw ==
    ts_pc \in {"returned", "raised"} /\ IsWellFormed(timestamp_arg) =>
        /\ ts_pc = "returned"
        /\ timestamp_result.isNone = FALSE
        /\ timestamp_result.special = "no"
        /\ timestamp_result.ms = StatedMillis(timestamp_arg)
        /\ IF timestamp_result.ms = 0 THEN timestamp_result.err = 0
           ELSE /\ timestamp_result.err <= UnitInLastPlace(timestamp_result.ms)
                /\ 0 - timestamp_result.err <= UnitInLastPlace(timestamp_result.ms)

\* 00:01:30.500 has been parsed and gave 90.5
TimestampValueWitness ==
    /\ ts_pc = "returned"
    /\ timestamp_arg = <<"0", "0", ":", "0", "1", ":", "3", "0", ".", "5", "0", "0">>
    /\ timestamp_result = Float(90500, 0)

(***************************************************************************)
(* Properties of capitalize_sentences (SpecCapitalize)                     *)
(***************************************************************************)
\* whether the character at index k of the text is one the capitalizer is
\* stated to uppercase: an alphabetic character that is the first of the
\* text, or the first alphabetic one after a '.', '?' or '!' that is not the
\* last character of the text
IsSentenceStart(sentence, k) ==
    /\ StrIsAlpha(sentence[k])
    /\ \/ k = 1
       \/ \E p \in 1..(k - 1) :
              /\ sentence[p] \in {".", "?", "!"}
              /\ p < Len(sentence)
              /\ \A j \in (p + 1)..(k - 1) : ~StrIsAlpha(sentence[j])

\* C14: capitalize_sentences returns its argument with the first character
\* uppercased if alphabetic and the first alphabetic character after each
\* '.', '?' or '!' uppercased; every other character is unchanged and at the
\* same position, and the empty text is returned unchanged.
CapitalizeAsStated ==
    cap_pc = "returned" =>
        /\ Len(cap_result) = Len(cap_arg)
        /\ \A k \in 1..Len(cap_arg) :
               IF IsSentenceStart(cap_arg, k)
               THEN <<cap_result[k]>> = StrUpper(cap_arg[k])
               ELSE cap_result[k] = cap_arg[k]

(***************************************************************************)
(* Properties of AdaptiveRateLimiter (SpecLimiter, SpecLimiterFair)        *)
(***************************************************************************)
\* x <= y for two sleep times
SleepAtMost(x, y) == x.ms < y.ms \/ (x.ms = y.ms /\ x.err <= y.err)

\* C18: on_rate_limit doubles the sleep time, but never beyond max_sleep.
\* After the call current_sleep is min(2 * previous current_sleep, max_sleep):
\* twice the previous value when that is at most max_sleep, max_sleep
\* otherwise; so it is at most max_sleep after every rate limit, however many
\* follow each other.
DoubledUpToMax ==
    [][lim_pc' = "on_rate_limit" =>
          /\ current_sleep' =
                IF SleepAtMost(Float(2 * current_sleep.ms, 2 * current_sleep.err),
                               max_sleep)
                THEN Float(2 * current_sleep.ms, 2 * current_sleep.err)
                ELSE max_sleep
          /\ SleepAtMost(current_sleep', max_sleep)]_vars

\* three rate limits in a row from 2.0 with max_sleep = 10.0: 4.0, 8.0, and
\* the third is held at 10.0
DoubledUpToMaxWitness ==
    /\ lim_pc = "on_rate_limit"
    /\ base_sleep = Float(2000, 0)
    /\ max_sleep = Float(10000, 0)
    /\ rate_limits = 3
    /\ successes_since = 0
    /\ current_sleep = Float(10000, 0)

\* the larger of two numbers of milliseconds
LargerMillis(a, b) == IF a >= b THEN a ELSE b

\* C19: after on_rate_limit the sleep time is held for backoff_count requests.
\* Each of the first backoff_count calls of on_success after an on_rate_limit
\* leaves current_sleep as it is; every later call of on_success, as long as
\* no rate limit comes, takes decay_rate off it without going below
\* base_sleep: the new value is the float of max(base_sleep, current_sleep -
\* decay_rate), and from a sleep time of at least base_sleep it is neither
\* above the old value nor below base_sleep.
HeldThenDecayed ==
    [][(lim_pc' = "on_success" /\ successes_since >= 0) =>
          IF successes_since < backoff_count
          THEN current_sleep' = current_sleep
          ELSE /\ current_sleep'.ms =
                      LargerMillis(base_sleep.ms, current_sleep.ms - decay_rate.ms)
               /\ current_sleep'.err = 0
               /\ SleepAtMost(base_sleep, current_sleep) =>
                      /\ SleepAtMost(base_sleep, current_sleep')
                      /\ SleepAtMost(current_sleep', current_sleep)]_vars

\* a limiter with backoff_count = 2 and decay_rate = 0.5 raised from 2.0 to
\* 4.0: two successes have left 4.0, and the third has made it 3.5
HeldThenDecayedWitness ==
    /\ lim_pc = "on_success"
    /\ base_sleep = Float(2000, 0)
    /\ backoff_count = 2
    /\ decay_rate = Float(500, 0)
    /\ rate_limits = 1
    /\ successes_since = 3
    /\ backoff_requests = 0
    /\ current_sleep = Float(3500, 0)

\* C20: when requests keep succeeding the limiter comes back to base_sleep.
\* With a decay_rate above zero and no rate limit any more, the calls of
\* on_success bring current_sleep to base_sleep after finitely many calls, and
\* every later on_success leaves it there.
ReturnsToBase ==
    FloatLess(Float(0, 0), decay_rate) => <>[](current_sleep = base_sleep)

\* the same for the limiters whose decay_rate is a number of half seconds
ReturnsToBaseByHalfSeconds == decay_rate.ms > 0 => ReturnsToBase

\* C27: a limiter built with 0 < base_sleep <= max_sleep, backoff_count >= 0
\* and decay_rate >= 0 keeps base_sleep <= current_sleep <= max_sleep and
\* 0 <= backoff_requests <= backoff_count through every sequence of
\* on_rate_limit, on_success and get_sleep_time; get_sleep_time returns
\* current_sleep and changes no field of the limiter.
SleepStaysInRange ==
    /\ [](SleepAtMost(base_sleep, max_sleep) =>
             /\ SleepAtMost(base_sleep, current_sleep)
             /\ SleepAtMost(current_sleep, max_sleep)
             /\ 0 <= backoff_requests
             /\ backoff_requests <= backoff_count)
    /\ [][lim_pc' = "get_sleep_time" =>
             /\ sleep_time' = current_sleep
             /\ UNCHANGED <<base_sleep, max_sleep, backoff_count, decay_rate,
                            current_sleep, backoff_requests>>]_vars

\* a limiter from 2.0 with decay_rate = 1.5 and no hold: one rate limit has
\* made it 4.0, the first success 2.5, the second has stopped at 2.0, and
\* get_sleep_time returns 2.0
SleepStaysInRangeWitness ==
    /\ lim_pc = "get_sleep_time"
    /\ base_sleep = Float(2000, 0)
    /\ max_sleep = Float(10000, 0)
    /\ decay_rate = Float(1500, 0)
    /\ backoff_count = 0
    /\ rate_limits = 1
    /\ successes_since = 1
    /\ current_sleep = Float(2000, 0)
    /\ sleep_time = Float(2000, 0)

(***************************************************************************)
(* Further properties of clean_vtt_content (SpecClean)                     *)
(***************************************************************************)
\* line k of the content is a cue-timing line "HH:MM:SS.mmm --> HH:MM:SS.mmm"
IsCueLine(k) ==
    /\ Len(lines[k]) = 29
    /\ IsTimestampAt(lines[k], 1)
    /\ IsTimestampAt(lines[k], 18)

\* the cue-timing lines among the lines the loop has been through
CuesBefore(n) == {k \in 1..n : IsCueLine(k)}

\* the last of them
PrecedingCue(n) == CHOOSE k \in CuesBefore(n) : \A j \in CuesBefore(n) : j <= k

\* C24: every cue-timing line sets the tracked end time to its own end time,
\* whether or not it closes a paragraph and whether or not it brings any kept
\* text.  While the loop runs, current_end_time is None before the first
\* cue-timing line and afterwards the end time written on the last cue-timing
\* line passed; and a cue closes a paragraph only if its start time is at
\* least pause_threshold, to the millisecond, after that end time.
EndTimeTracksLastCue ==
    /\ seg_pc \in {"loop", "done"} =>
          IF CuesBefore(i) = {}
          THEN current_end_time = None
          ELSE /\ current_end_time.isNone = FALSE
               /\ current_end_time.ms =
                      StatedMillis(SubSeq(lines[PrecedingCue(i)], 18, 29))
    /\ \A p \in 1..Len(blocks) :
          blocks[p].is_new_paragraph =>
              \E k \in CuesBefore(Len(lines)) :
                  /\ CuesBefore(k - 1) # {}
                  /\ StatedMillis(SubSeq(lines[k], 1, 12))
                        - StatedMillis(SubSeq(lines[PrecedingCue(k - 1)], 18, 29))
                        >= pause_threshold

\* a cue that closes a paragraph has moved it too: "hi" said in 0.000 -> 1.504,
\* then the cue 7.500 -> 60.100
EndTimeAtBreakWitness ==
    /\ seg_pc = "loop"
    /\ i = 3
    /\ lines[1] = CueLine(0, 1504)
    /\ lines[2] = <<"h", "i">>
    /\ lines[3] = CueLine(7500, 60100)
    /\ Len(blocks) = 1
    /\ current_end_time.ms = 60100

\* the step closes a paragraph: a block with is_new_paragraph is appended
ClosesParagraph ==
    /\ Len(blocks') = Len(blocks) + 1
    /\ blocks'[Len(blocks')].is_new_paragraph
    /\ blocks'[Len(blocks')].text = current_block_text

\* C30: through the loop of clean_vtt_content the deduplication set holds
\* exactly the lines of the accumulation buffer, every buffered line is
\* non-empty and stands once; a step of the loop that closes a paragraph
\* empties both, and every other step leaves both or appends one line to the
\* buffer and adds it to the set.
SetAndBufferInStep ==
    /\ [](/\ seen_lines = Range(current_block_text)
          /\ \A k \in DOMAIN current_block_text : current_block_text[k] # <<>>
          /\ Cardinality(seen_lines) = Len(current_block_text))
    /\ [][(seg_pc = "loop" /\ seg_pc' = "loop") =>
             IF ClosesParagraph
             THEN /\ current_block_text # <<>>
                  /\ current_block_text' = <<>>
                  /\ seen_lines' = {}
             ELSE /\ UNCHANGED blocks
                  /\ \/ UNCHANGED <<current_block_text, seen_lines>>
                     \/ \E plain \in Range(current_block_text') :
                            /\ current_block_text' = Append(current_block_text, plain)
                            /\ seen_lines' = seen_lines \cup {plain}
                            /\ plain \notin seen_lines]_vars

\* "hi", a pause that closes the paragraph, and "hi" again: the line is kept
\* a second time because the set was emptied with the buffer
SetAndBufferResetWitness ==
    /\ seg_pc = "loop"
    /\ i = 4
    /\ lines[1] = CueLine(0, 1504)
    /\ lines[2] = <<"h", "i">>
    /\ lines[3] = CueLine(7500, 60100)
    /\ lines[4] = <<"h", "i">>
    /\ Len(blocks) = 1
    /\ blocks[1].text = <<<<"h", "i">>>>
    /\ current_block_text = <<<<"h", "i">>>>
    /\ seen_lines = {<<"h", "i">>}

(***************************************************************************)
(* Further properties of the annotation filter (SpecFilter)                *)
(***************************************************************************)
\* C25: the verdict of the filter on a text line does not depend on the order
\* in which the loop takes the marker phrases.  A line that has been kept is
\* emptied by no order of the phrases, and a line that has been discarded
\* without being a marker phrase itself is emptied by every order; so the same
\* content gives the same output on every run.
FilterOrderIndependent ==
    flt_pc \in {"discarded", "kept"} =>
        LET plain == SanitizeLine(text_line)
            left == text_without_marker(plain)
        IN  /\ flt_pc = "kept" => <<>> \notin left
            /\ (flt_pc = "discarded" /\ Lower(plain) \notin USELESS_MARKERS) =>
                   left = {<<>>}

(***************************************************************************)
(* Properties of repeated runs of consolidate_all (SpecRerun)              *)
(***************************************************************************)
\* C21: when a run of consolidate_all has returned, manifest.json holds the
\* record of that run, its collections and their statistics, and nothing of
\* the runs before it.
ManifestIsLatestRun ==
    con_pc = "done" =>
        /\ manifest_file.exists
        /\ manifest_file.channels = manifest

\* the same for the runs that find _biblioteca
ManifestIsLatestRunOfLibrary ==
    (con_pc = "done" /\ biblioteca_exists) =>
        /\ manifest_file.exists
        /\ manifest_file.channels = manifest
        /\ DOMAIN manifest_file.channels = Channels

\* the volume files of a collection that are in _exports
VolumesPresent(c) == {n \in DOMAIN exports : Head(n) = Head(c)}

\* the volume files the manifest of the run lists for a collection
VolumesListed(c) == {manifest[c].volumenes[k] : k \in DOMAIN manifest[c].volumenes}

\* C26: when a run of consolidate_all on a library has returned, after any
\* runs before it into the same _exports, the volume files present for a
\* collection are exactly those its manifest lists: none of an earlier run
\* remains unlisted.
NoStaleVolumes ==
    (con_pc = "done" /\ biblioteca_exists) =>
        \A c \in DOMAIN manifest : VolumesPresent(c) = VolumesListed(c)

\* the part of C26 that holds: every volume the manifest lists is present,
\* and after the first run nothing else is
ListedVolumesPresent ==
    (con_pc = "done" /\ biblioteca_exists) =>
        \A c \in DOMAIN manifest :
            /\ VolumesListed(c) \subseteq VolumesPresent(c)
            /\ run_number = 1 => VolumesPresent(c) = VolumesListed(c)

(***************************************************************************)
(* Properties of Downloader (SpecDownload)                                 *)
(***************************************************************************)
\* the number of times a step occurs in the trace of a call
Steps(trace, step) == Cardinality({k \in DOMAIN trace : trace[k] = step})

\* the call of download that has ended met a rate-limiting response
RateLimitedDownload ==
    /\ dl_pc \in {"returned", "raised"}
    /\ dl_outcome.method = "download"
    /\ dl_outcome.kind = "DownloadError"
    /\ IsRateLimitText(dl_outcome.message)

\* C22: a call of download that meets a rate-limiting response (429 or Too
\* Many Requests) calls on_rate_limit exactly once and does not count the
\* response in the errors of the statistics it returns.
RateLimitIsControlSignal ==
    RateLimitedDownload =>
        /\ Steps(dl_trace, "on_rate_limit") = 1
        /\ dl_stats.errors = 0

\* the part of C22 that holds: on_rate_limit is called exactly once, and the
\* call returns its statistics after the wait
RateLimitNotifiedOnce ==
    RateLimitedDownload =>
        /\ Steps(dl_trace, "on_rate_limit") = 1
        /\ Steps(dl_trace, "on_success") = 0
        /\ dl_pc = "returned"

\* the call that has ended was made with a url that is not a YouTube url, or
\* its retrieval did not reach or find the target
BadTarget ==
    /\ dl_pc \in {"returned", "raised"}
    /\ \/ ~is_valid_youtube_url(dl_url)
       \/ /\ dl_outcome.kind = "DownloadError"
          /\ ~IsRateLimitText(dl_outcome.message)

\* C23: a call of download or get_channel_info with an invalid or unreachable
\* target ends in an exception and counts no error in returned statistics;
\* with an invalid url nothing is retrieved, notified or waited for.
BadTargetIsHardFailure ==
    BadTarget =>
        /\ dl_pc = "raised"
        /\ dl_stats.errors = 0
        /\ ~is_valid_youtube_url(dl_url) => dl_trace = <<>>

\* the part of C23 that holds: an invalid url raises ValueError in both
\* methods before any retrieval, and get_channel_info lets every
\* DownloadError through
InvalidUrlFailsFirst ==
    dl_pc \in {"returned", "raised"} =>
        /\ ~is_valid_youtube_url(dl_url) =>
               /\ dl_pc = "raised"
               /\ dl_outcome.kind = "ValueError"
               /\ dl_trace = <<>>
        /\ (dl_outcome.method = "get_channel_info" /\ dl_outcome.kind = "DownloadError") =>
               dl_pc = "raised"

\* an invalid url leaves the rate limiter as it was
InvalidUrlLeavesLimiter ==
    [][(dl_pc' = "raised" /\ dl_outcome'.kind = "ValueError") => UNCHANGED lim_vars]_vars

(***************************************************************************)
(* Properties of create_markdown_output read back (SpecFormat)             *)
(***************************************************************************)
\* C28: the document create_markdown_output builds passes
\* validate_markdown_file, and extract_title gives back exactly the base
\* name it was built with, whatever the base name, language, source file,
\* channel and content.
TitleRoundTrip ==
    fmt_pc = "read" =>
        /\ fmt_valid
        /\ fmt_title = fmt_args.base_name

\* the part of C28 that holds: the document is valid, its first line is
\* "# " and the base name up to its first line feed, and the title is the
\* base name when that has no line feed and neither begins with '#' or white
\* space nor ends in white space
TitleRoundTripOfPlainNames ==
    fmt_pc = "read" =>
        /\ fmt_valid
        /\ Split(fmt_document, "\n")[1] = <<"#", " ">> \o Split(fmt_args.base_name, "\n")[1]
        /\ (/\ \A k \in DOMAIN fmt_args.base_name : fmt_args.base_name[k] # "\n"
            /\ Strip(fmt_args.base_name) = fmt_args.base_name
            /\ LStripChars(fmt_args.base_name, {"#"}) = fmt_args.base_name) =>
               fmt_title = fmt_args.base_name

(***************************************************************************)
(* Properties of the names of a document (SpecNames)                       *)
(***************************************************************************)
\* C29: for every caption filename, plain or with .en, .es, .en-US or .es-ES,
\* the base name, the language label and the name of the document computed
\* by the download callback equal those computed by process_single_file.
PathsAgree ==
    nam_pc = "both" => nam_callback = nam_directory

\* the part of C29 that holds: the two agree on the names with at most a
\* two-letter language suffix after a stem that has no "." beyond a leading one
PathsAgreeOnTwoLetterNames ==
    (/\ nam_pc = "both"
     /\ ~is_regional_variant(nam_filename)
     /\ \E stem \in SampleStems \ {<<"m", "y", ".", "v", "i", "d", "e", "o">>}, suffix \in SampleSuffixes :
            nam_filename = stem \o suffix) =>
        nam_callback = nam_directory

====
